---- MODULE Spec2Model ----
(***************************************************************************)
(* Model of the lb_buffer cursors: LB_Writer (src/include/lb_writer.h) and *)
(* LB_Reader (src/include/lb_reader.h), each over a Buffer backend (a      *)
(* caller-owned byte region) or a File backend (a stdio stream).           *)
(*                                                                         *)
(* A typed value of N bytes is the sequence of its N base-256 digits,      *)
(* least significant digit first; NativeBytes turns it into the object     *)
(* representation that `&value` points at on the host.                     *)
(***************************************************************************)
EXTENDS Integers, Sequences, FiniteSets, TLC

(* ------------------------------ bounds --------------------------------- *)

\* length of the byte region handed to lbWriterInitBuffer / lbReaderInitBuffer
MaxLength == 9
\* number of API calls made after construction
MaxOps == 2
\* number of bytes the store holds when the File-mode cursors are constructed
MaxStore == 9
\* the machine word of size_t is modelled as the integers modulo SizeMod
SizeMod == 65536
\* number of bytes the device behind the store can hold
StoreCap == 16
\* number of values a caller writes in a row before reading them back
MaxValues == 3
\* number of pages the heap has room for
MaxPages == 3
\* number of arena calls a caller makes, lbPagedArenaNew included
MaxCalls == 5

(* ------------------------- program constants --------------------------- *)

LB_WRITER_MODE_BUFFER == 0
LB_WRITER_MODE_FILE == 1
LB_READER_MODE_BUFFER == 0
LB_READER_MODE_FILE == 1

LB_WRITER_INIT_NONE == 0
LB_WRITER_INIT_DATA_NULL == 1
LB_WRITER_INIT_NO_WRITER == 2
LB_WRITER_INIT_INVALID_FILE == 4
LB_WRITER_INIT_LENGTH_ZERO == 8

LB_READER_INIT_NONE == 0
LB_READER_INIT_DATA_NULL == 1
LB_READER_INIT_FILE_INVALID == 2
LB_READER_INIT_NO_READER == 4
LB_READER_INIT_LENGTH_ZERO == 8

LB_WRITER_ERROR_NONE == 0
LB_WRITER_ERROR_FULL == 1
LB_WRITER_ERROR_WRITER_NULL == 2
LB_WRITER_ERROR_DATA_NULL == 4
LB_WRITER_ERROR_INVALID_VALUE == 8

LB_READER_ERROR_NONE == 0
LB_READER_ERROR_END == 1
LB_READER_ERROR_READER_NULL == 2
LB_READER_ERROR_DATA_NULL == 4
LB_READER_ERROR_INVALID_VALUE == 8

\* sizeof of uint8_t/int8_t, uint16_t/int16_t, uint32_t/int32_t/float,
\* uint64_t/int64_t/double
Widths == {1, 2, 4, 8}
\* one more than the largest uint8_t
ByteMod == 256
\* bytes of memory that follow the region in the caller's address space
Slack == 7

\* __BYTE_ORDER__ == __ORDER_LITTLE_ENDIAN__: the writer's aliases lbWriteLE
\* and lbWriteBE exist only in this branch of the #if (the #else branch
\* defines lbWriterLE / lbWriterBE instead), so the host is little-endian.
HostLittleEndian == TRUE

\* the null pointer, as the value of a data or file field
NULL == "NULL"

(* --------------------------- bit flags --------------------------------- *)

\* e & f != 0, for a single-bit flag f
HasFlag(e, f) == (e \div f) % 2 = 1

\* e |= f, for a single-bit flag f
OrFlag(e, f) == IF HasFlag(e, f) THEN e ELSE e + f

(* ------------------------ byte sequences ------------------------------- *)

Reverse(s) == [i \in 1..Len(s) |-> s[Len(s) + 1 - i]]

\* object representation of a value given by its digits, least significant
\* first
NativeBytes(v) == IF HostLittleEndian THEN v ELSE Reverse(v)

\* the value whose object representation is b
FromNativeBytes(b) == IF HostLittleEndian THEN b ELSE Reverse(b)

(* ------------------ arithmetic on digit sequences ----------------------- *)
(* Naturals beyond the range of the model checker's integers are held as   *)
(* sequences of base-256 digits, least significant first.                  *)

RECURSIVE MulRec(_, _, _, _)
MulRec(d, k, i, carry) ==
    IF i > Len(d) THEN <<carry>>
    ELSE LET t == d[i] * k + carry
         IN <<t % ByteMod>> \o MulRec(d, k, i + 1, t \div ByteMod)

\* d * k for a small natural k; one digit longer than d
MulSmall(d, k) == MulRec(d, k, 1, 0)

RECURSIVE AddRec(_, _, _)
AddRec(d, i, carry) ==
    IF i > Len(d) THEN <<>>
    ELSE LET t == d[i] + carry
         IN <<t % ByteMod>> \o AddRec(d, i + 1, t \div ByteMod)

\* d + a for a small natural a, truncated to Len(d) digits
AddSmall(d, a) == AddRec(d, 1, a)

RECURSIVE SubRec(_, _, _)
SubRec(d, i, borrow) ==
    IF i > Len(d) THEN <<>>
    ELSE LET t == d[i] - borrow
         IN IF t >= 0 THEN <<t>> \o SubRec(d, i + 1, 0)
            ELSE <<t + ByteMod>> \o SubRec(d, i + 1, 1)

\* d - a for a natural a <= min(d, 255)
SubSmall(d, a) == SubRec(d, 1, a)

RECURSIVE DivRec(_, _, _, _)
DivRec(d, k, i, rem) ==
    IF i = 0 THEN <<>>
    ELSE LET t == rem * ByteMod + d[i]
         IN DivRec(d, k, i - 1, t % k) \o <<t \div k>>

\* floor(d / k) for a small positive k
DivSmall(d, k) == DivRec(d, k, Len(d), 0)

\* d = 0
IsZero(d) == \A i \in 1..Len(d) : d[i] = 0

RECURSIVE LeqRec(_, _, _)
LeqRec(a, b, i) ==
    IF i = 0 THEN TRUE
    ELSE IF a[i] < b[i] THEN TRUE
    ELSE IF a[i] > b[i] THEN FALSE
    ELSE LeqRec(a, b, i - 1)

\* a <= b, for digit sequences of the same length
Leq(a, b) == LeqRec(a, b, Len(a))

\* d padded with zero digits to n digits
Pad(d, n) == d \o [i \in 1..(n - Len(d)) |-> 0]

\* two's complement of the magnitude d in Len(d) digits: 256^Len(d) - d,
\* and 0 for d = 0
Negate(d) == AddSmall([i \in 1..Len(d) |-> ByteMod - 1 - d[i]], 1)

(* ------------------------ normalized values ---------------------------- *)
(* A float or double argument is the rational <<num, den>> with den a      *)
(* power of two, which both formats hold exactly.                          *)

Abs(x) == IF x < 0 THEN -x ELSE x

\* UINT8_MAX .. UINT64_MAX (sgn = FALSE), INT8_MAX .. INT64_MAX (sgn = TRUE)
NormMax(sgn, n) == [i \in 1..n |-> IF sgn /\ i = n THEN 127 ELSE 255]

\* (float) UINT8_MAX, (float) UINT16_MAX, (double) UINT32_MAX, ... in n + 1
\* digits.  A double has 53 significant bits: (double) UINT64_MAX is 2^64
\* and (double) INT64_MAX is 2^63; the narrower maxima convert exactly.
FloatMax(sgn, n) ==
    IF n < 8 THEN Pad(NormMax(sgn, n), n + 1)
    ELSE [i \in 1..(n + 1) |-> IF sgn THEN (IF i = n THEN 128 ELSE 0)
                                      ELSE (IF i = n + 1 THEN 1 ELSE 0)]

\* what a build makes of a float-to-integer cast whose operand the integer
\* type cannot hold (undefined in C): zero, the saturated maximum, or the
\* "integer indefinite" pattern 0x80..00
CastOutcomes(sgn, n) ==
    { [i \in 1..n |-> 0],
      NormMax(sgn, n),
      [i \in 1..n |-> IF i = n THEN 128 ELSE 0] }

\* magnitude of (T)(value * MAX + 0.5), the cast truncating toward zero.
\* prod is den * |value * MAX|, exact in the float type.  For the 8-byte
\* widths a non-zero product is at least 2^61, so adding 0.5 rounds back to
\* the product itself.
NormMagnitude(sgn, n, v) ==
    LET a == Abs(v[1])
        den == v[2]
        prod == MulSmall(FloatMax(sgn, n), a)
        twice == MulSmall(prod, 2)
    IN IF n = 8 /\ a # 0 THEN Pad(DivSmall(prod, den), n + 3)
       ELSE IF v[1] >= 0 THEN DivSmall(AddSmall(twice, den), 2 * den)
       ELSE DivSmall(SubSmall(twice, den), 2 * den)

\* the cast's operand lies in the range of the integer type
NormRepresentable(sgn, n, v) ==
    LET mag == NormMagnitude(sgn, n, v)
        max == Pad(NormMax(sgn, n), n + 3)
    IN IF v[1] >= 0 THEN Leq(mag, max)
       ELSE IF sgn THEN Leq(mag, AddSmall(max, 1))
       ELSE IsZero(mag)

\* the object values `normalized` may take in lbWriteNU8 .. lbWriteNI64,
\* as digit sequences of n bytes
Normalize(sgn, n, v) ==
    LET mag == SubSeq(NormMagnitude(sgn, n, v), 1, n)
    IN IF ~NormRepresentable(sgn, n, v) THEN CastOutcomes(sgn, n)
       ELSE IF v[1] >= 0 THEN {mag}
       ELSE {Negate(mag)}

\* value < 0.0f || value > 1.0f
UnsignedOutOfRange(v) == v[1] < 0 \/ v[1] > v[2]

\* value < -1.0f || value > 1.0f
SignedOutOfRange(v) == v[1] < -v[2] \/ v[1] > v[2]

(* -------------------------- LB_PagedArena ------------------------------- *)
(* The heap holds up to MaxPages LB_PagedArenaPage objects at the          *)
(* addresses 1 .. MaxPages; 0 is NULL.  An arena is [exists, head, tail,   *)
(* default_page_capacity, heap]: the LB_PagedArena object, once            *)
(* lbPagedArenaNew has returned it, and the pages malloc has handed out.   *)

PageAddrs == 1..MaxPages

\* heap memory that holds no page
NoPage == [used |-> FALSE, next |-> 0, prev |-> 0, capacity |-> 0,
           length |-> 0]

\* before lbPagedArenaNew has returned an arena
NoArena == [exists |-> FALSE, head |-> 0, tail |-> 0,
            default_page_capacity |-> 0,
            heap |-> [a \in PageAddrs |-> NoPage]]

\* lbPagedArenaPageNew: [heap, page].  malloc returns NULL when ok is FALSE
\* or the heap has no room left, else the lowest free address.
lbPagedArenaPageNew(heap, capacity, ok) ==
    LET free == {a \in PageAddrs : ~heap[a].used}
    IN IF ~ok \/ free = {} THEN [heap |-> heap, page |-> 0]
       ELSE LET a == CHOOSE x \in free : \A y \in free : x <= y
            IN [heap |-> [heap EXCEPT ![a] =
                             [used |-> TRUE, next |-> 0, prev |-> 0,
                              capacity |-> capacity, length |-> 0]],
                page |-> a]

\* lbPagedArenaNew: the arena returned, NoArena standing for NULL.
\* pageOk, arenaOk: the two malloc calls succeed.
lbPagedArenaNew(default_page_capacity, pageOk, arenaOk) ==
    IF default_page_capacity = 0 THEN NoArena
    ELSE LET r == lbPagedArenaPageNew(NoArena.heap, default_page_capacity,
                                      pageOk)
         IN IF r.page = 0 THEN NoArena
            ELSE IF ~arenaOk THEN NoArena
            ELSE [exists |-> TRUE, head |-> r.page, tail |-> r.page,
                  default_page_capacity |-> default_page_capacity,
                  heap |-> r.heap]

\* a clear that resets the page it is given and stops
ClearFromHeadOnly(heap, page) ==
    IF page = 0 THEN heap ELSE [heap EXCEPT ![page].length = 0]

\* the loop of lbPagedArenaClear from page on
RECURSIVE ClearFrom(_, _)
ClearFrom(heap, page) ==
    IF page = 0 THEN heap
    ELSE ClearFrom([heap EXCEPT ![page].length = 0], heap[page].next)

lbPagedArenaClear(ar) == [ar EXCEPT !.heap = ClearFrom(ar.heap, ar.head)]

\* the scan with `<` for `<=`: a request that fills a page exactly is
\* turned away from it
RECURSIVE ScanFromStrict(_, _, _)
ScanFromStrict(heap, page, size) ==
    IF page = 0 THEN 0
    ELSE IF (heap[page].length + size) % SizeMod < heap[page].capacity
    THEN page
    ELSE ScanFromStrict(heap, heap[page].next, size)

\* step 1 of lbPagedArenaAlloc from page on: the first page with
\* page->length + size <= page->capacity, the sum taken in size_t; 0 when
\* the scan runs off the tail
RECURSIVE ScanFrom(_, _, _)
ScanFrom(heap, page, size) ==
    IF page = 0 THEN 0
    ELSE IF (heap[page].length + size) % SizeMod <= heap[page].capacity
    THEN page
    ELSE ScanFrom(heap, heap[page].next, size)

\* a loop that quadruples: it steps over the smallest fitting capacity
DoubleCapacityTwice(c) == (c * 4) % SizeMod

\* new_capacity *= 2, in size_t
DoubleCapacity(c) == (c * 2) % SizeMod

\* the loop `while (new_capacity < size) new_capacity *= 2` from
\* new_capacity = c on, seen the values it has already had: the value it
\* exits with, or -1 when it never exits (a value comes back: once the
\* product has wrapped to 0 it stays 0)
RECURSIVE DoublingFrom(_, _, _)
DoublingFrom(c, size, seen) ==
    IF c >= size THEN c
    ELSE IF c \in seen THEN -1
    ELSE DoublingFrom(DoubleCapacity(c), size, seen \cup {c})

DoublingLoop(c, size) == DoublingFrom(c, size, {})

\* step 2 with the new length kept as the mathematical sum
BumpPageNoWrap(ar, page, size) ==
    [arena |-> [ar EXCEPT !.heap[page].length = @ + size],
     page |-> page, off |-> ar.heap[page].length, hung |-> FALSE]

\* step 2 of lbPagedArenaAlloc on page: [arena, page, off]
BumpPage(ar, page, size) ==
    [arena |-> [ar EXCEPT !.heap[page].length = (@ + size) % SizeMod],
     page |-> page, off |-> ar.heap[page].length, hung |-> FALSE]

\* step 1.5 without `page->prev = arena->tail`
AppendPageNoPrev(ar, new_capacity, size, ok) ==
    LET r == lbPagedArenaPageNew(ar.heap, new_capacity, ok)
    IN IF r.page = 0
       THEN [arena |-> ar, page |-> 0, off |-> 0, hung |-> FALSE]
       ELSE BumpPage([ar EXCEPT
                        !.heap = [r.heap EXCEPT ![ar.tail].next = r.page],
                        !.tail = r.page],
                     r.page, size)

\* step 1.5 of lbPagedArenaAlloc once the loop has left new_capacity:
\* [arena, page, off], page = 0 for the NULL return
AppendPage(ar, new_capacity, size, ok) ==
    LET r == lbPagedArenaPageNew(ar.heap, new_capacity, ok)
    IN IF r.page = 0
       THEN [arena |-> ar, page |-> 0, off |-> 0, hung |-> FALSE]
       ELSE BumpPage([ar EXCEPT
                        !.heap = [r.heap EXCEPT
                                    ![r.page].prev = ar.tail,
                                    ![ar.tail].next = r.page],
                        !.tail = r.page],
                     r.page, size)

\* lbPagedArenaAlloc: [arena, page, off, hung]; the pointer returned is
\* page->data + off, page = 0 standing for NULL; hung when the call never
\* returns
lbPagedArenaAlloc(ar, size, ok) ==
    LET page == ScanFrom(ar.heap, ar.head, size)
        new_capacity == DoublingLoop(ar.default_page_capacity, size)
    IN IF page # 0 THEN BumpPage(ar, page, size)
       ELSE IF new_capacity = -1
       THEN [arena |-> ar, page |-> 0, off |-> 0, hung |-> TRUE]
       ELSE AppendPage(ar, new_capacity, size, ok)

\* no arena call made yet.  pc: "idle" between calls, "double" inside the
\* doubling loop, "hung" in a call that never returns; allocs: the
\* [page, off, size] of every allocation handed out since the last clear;
\* before: the call made before this one
NoArenaCall ==
    [op |-> "none", size |-> 0, page |-> 0, off |-> 0, pc |-> "idle",
     new_capacity |-> 0, pre |-> NoArena, allocs |-> <<>>, calls |-> 0,
     before |-> "none"]

(* ------------------------------ state ---------------------------------- *)

VARIABLES
    writer,   \* LB_Writer: [mode, length, position]
    reader,   \* LB_Reader: [mode, length, position]
    mem,      \* the bytes at data[0 .. length + Slack - 1]
    store,    \* the bytes of the file behind both FILE handles
    wfile,    \* file position indicator of the writer's FILE
    rfile,    \* file position indicator of the reader's FILE
    last,     \* the most recent API call: arguments, results, fwrite calls
    prev,     \* the API call before that one
    pre,      \* the cursors and storage as they were before that call
    ops,      \* number of API calls made so far
    log,      \* the calls of a write-then-read-back sequence, in order
    arena,    \* LB_PagedArena and the LB_PagedArenaPage objects on the heap
    acall     \* the arena call in progress or last made, and what the
              \* caller has been handed since the last clear

vars ==
    <<writer, reader, mem, store, wfile, rfile, last, prev, pre, ops, log,
      arena, acall>>

\* byte i of the memory the region pointer refers to, before any write
InitByte(i) == 224 + i

\* bytes of the store when the FILE handles are opened
StoreByte(i) == 160 + i

\* the plain values written, per width: digits of 0x9A..12345678 style
\* numbers, least significant first
Seeds ==
    { <<120, 86, 52, 18, 240, 222, 188, 154>>,
      <<1, 0, 128, 255, 127, 2, 254, 3>> }

TypedValues(n) == { SubSeq(sd, 1, n) : sd \in Seeds }

\* the float / double arguments of the normalized writers
NormValues == { <<-3, 2>>, <<-1, 1>>, <<-1, 2>>, <<1, 2>>, <<1, 1>>, <<3, 2>> }

Orders == {"native", "LE", "BE"}

(* ----------------------------- storage ---------------------------------- *)

\* memcpy(data + pos, bytes, Len(bytes)) and the byte loop of
\* lbWriteReversedUnsafe: the bytes land at offsets pos .. pos + Len(bytes) - 1
\* of the memory that starts at data
StoreBytes(m, pos, bytes) ==
    [i \in 1..Len(m) |->
        IF pos < i /\ i <= pos + Len(bytes) THEN bytes[i - pos] ELSE m[i]]

\* the length bytes at data + pos
LoadBytes(m, pos, length) == [i \in 1..length |-> m[pos + i]]

\* fread(out, length, 1, file): [n, out, off].  A short read delivers the
\* bytes that are left, moves the position indicator past them and
\* returns 0.
fread(st, off, length) ==
    LET avail == IF off < Len(st) THEN Len(st) - off ELSE 0
    IN IF avail >= length
       THEN [n |-> 1, out |-> SubSeq(st, off + 1, off + length),
             off |-> off + length]
       ELSE [n |-> 0, out |-> SubSeq(st, off + 1, off + avail),
             off |-> off + avail]

\* fwrite on a stream opened for appending: the item goes to the end of
\* the file
fwriteAppend(st, off, bytes) ==
    IF Len(st) + Len(bytes) > StoreCap
    THEN [n |-> 0, store |-> st, off |-> off]
    ELSE [n |-> 1, store |-> st \o bytes, off |-> Len(st) + Len(bytes)]

\* fwrite(bytes, Len(bytes), 1, file): [n, store, off].  Writing beyond the
\* end extends the file, a gap left by fseek reading as zero bytes.  An
\* item that would end beyond what the device holds is not written and the
\* call returns 0.
fwrite(st, off, bytes) ==
    LET end == off + Len(bytes)
        size == IF end > Len(st) THEN end ELSE Len(st)
    IN IF end > StoreCap THEN [n |-> 0, store |-> st, off |-> off]
       ELSE [n |-> 1,
             store |-> [i \in 1..size |->
                           IF off < i /\ i <= end THEN bytes[i - off]
                           ELSE IF i <= Len(st) THEN st[i] ELSE 0],
             off |-> end]

\* fseek(file, position, SEEK_SET): [rc, off].  The size_t argument becomes
\* a long; a value above LONG_MAX is negative there and is refused.
fseek(off, position) ==
    IF position < SizeMod \div 2 THEN [rc |-> 0, off |-> position]
    ELSE [rc |-> -1, off |-> off]

\* ftell(file)
ftell(off) == off

\* fseek(file, 0, SEEK_END): [rc, off]
fseekEnd(st) == [rc |-> 0, off |-> Len(st)]

(* --------------------------- LB_Writer ---------------------------------- *)
(* The operators below take the system state s = [writer, reader, mem,     *)
(* store, wfile, rfile, fwrites, nulls] and return [s, err] (writers) or   *)
(* [s, err, out] (readers), out being the bytes stored through out_value   *)
(* and s.fwrites the number of fwrite calls the API call has made.         *)
(* s.nulls names the pointer arguments of the call that are NULL: "cursor" *)
(* for writer / reader, "value" for value / out_value.                     *)

\* the compound literal lbWriterInitBuffer assigns to *writer
WriterBuffer(data, length) ==
    [mode |-> LB_WRITER_MODE_BUFFER, data |-> data, length |-> length,
     position |-> 0, file |-> NULL]

\* the compound literal lbWriterInitFile assigns to *writer
WriterFile(file) ==
    [mode |-> LB_WRITER_MODE_FILE, data |-> NULL, length |-> 0,
     position |-> 0, file |-> file]

lbWriterInitBuffer(s, data, length) ==
    LET e1 == IF "cursor" \in s.nulls THEN LB_WRITER_INIT_NO_WRITER
              ELSE LB_WRITER_INIT_NONE
        e2 == IF data = NULL THEN OrFlag(e1, LB_WRITER_INIT_DATA_NULL)
              ELSE e1
        e3 == IF length = 0 THEN OrFlag(e2, LB_WRITER_INIT_LENGTH_ZERO)
              ELSE e2
    IN IF e3 # LB_WRITER_INIT_NONE THEN [s |-> s, err |-> e3]
       ELSE [s |-> [s EXCEPT !.writer = WriterBuffer(data, length)],
             err |-> LB_WRITER_INIT_NONE]

\* writer is not tested: the function is called with a writer to assign to
lbWriterInitFile(s, file) ==
    IF file = NULL THEN [s |-> s, err |-> LB_WRITER_INIT_INVALID_FILE]
    ELSE [s |-> [s EXCEPT !.writer = WriterFile(file)],
          err |-> LB_WRITER_INIT_NONE]

\* lbWriterCheckSafety reporting the first condition it finds only
lbWriterCheckSafetyFirst(writerNull, w, valueNull, length) ==
    IF writerNull THEN LB_WRITER_ERROR_WRITER_NULL
    ELSE IF w.mode = LB_WRITER_MODE_BUFFER
            /\ (w.position + length) % SizeMod > w.length
    THEN LB_WRITER_ERROR_FULL
    ELSE IF (w.mode = LB_WRITER_MODE_BUFFER /\ w.data = NULL)
            \/ (w.mode = LB_WRITER_MODE_FILE /\ w.file = NULL)
    THEN LB_WRITER_ERROR_DATA_NULL
    ELSE IF valueNull THEN LB_WRITER_ERROR_INVALID_VALUE
    ELSE LB_WRITER_ERROR_NONE

\* writerNull: writer == NULL; valueNull: value == NULL
lbWriterCheckSafety(writerNull, w, valueNull, length) ==
    LET e1 == IF writerNull THEN LB_WRITER_ERROR_WRITER_NULL
              ELSE IF w.mode = LB_WRITER_MODE_BUFFER
              THEN LET full == IF (w.position + length) % SizeMod > w.length
                               THEN LB_WRITER_ERROR_FULL
                               ELSE LB_WRITER_ERROR_NONE
                   IN IF w.data = NULL
                      THEN OrFlag(full, LB_WRITER_ERROR_DATA_NULL)
                      ELSE full
              ELSE IF w.mode = LB_WRITER_MODE_FILE /\ w.file = NULL
              THEN LB_WRITER_ERROR_DATA_NULL
              ELSE LB_WRITER_ERROR_NONE
    IN IF valueNull THEN OrFlag(e1, LB_WRITER_ERROR_INVALID_VALUE) ELSE e1

\* lbWriterSeek refusing only positions beyond the length
lbWriterSeekInclusive(s, position) ==
    IF s.writer.mode = LB_WRITER_MODE_BUFFER
    THEN IF position > s.writer.length
         THEN [s |-> s, err |-> LB_WRITER_ERROR_FULL]
         ELSE [s |-> [s EXCEPT !.writer.position = position],
               err |-> LB_WRITER_ERROR_NONE]
    ELSE LET r == fseek(s.wfile, position)
         IN IF r.rc # 0
            THEN [s |-> s, err |-> LB_WRITER_ERROR_FULL]
            ELSE [s |-> [s EXCEPT !.wfile = r.off],
                  err |-> LB_WRITER_ERROR_NONE]

lbWriterSeek(s, position) ==
    IF s.writer.mode = LB_WRITER_MODE_BUFFER
    THEN IF position >= s.writer.length
         THEN [s |-> s, err |-> LB_WRITER_ERROR_FULL]
         ELSE [s |-> [s EXCEPT !.writer.position = position],
               err |-> LB_WRITER_ERROR_NONE]
    ELSE LET r == fseek(s.wfile, position)
         IN IF r.rc # 0
            THEN [s |-> s, err |-> LB_WRITER_ERROR_FULL]
            ELSE [s |-> [s EXCEPT !.wfile = r.off],
                  err |-> LB_WRITER_ERROR_NONE]

\* lbWriterTell
lbWriterPosition(s) ==
    IF s.writer.mode = LB_WRITER_MODE_BUFFER THEN s.writer.position
    ELSE s.wfile

\* lbWriterLength: [s, ret].  In File mode the position indicator goes to
\* the end of the file and back.
lbWriterLength(s) ==
    IF s.writer.mode = LB_WRITER_MODE_BUFFER
    THEN [s |-> s, ret |-> s.writer.length]
    ELSE LET position == ftell(s.wfile)
             atEnd == fseekEnd(s.store).off
             end == ftell(atEnd)
             back == fseek(atEnd, position).off
         IN [s |-> [s EXCEPT !.wfile = back], ret |-> end]

\* lbWriterRemaining: [s, ret], the difference taken in size_t
lbWriterRemaining(s) ==
    LET l == lbWriterLength(s)
    IN [s |-> l.s,
        ret |-> (l.ret - lbWriterPosition(l.s) + SizeMod) % SizeMod]

\* lbWriteUnsafe advancing the position to the next even offset
lbWriteUnsafeAligned(s, value, length) ==
    IF s.writer.mode = LB_WRITER_MODE_BUFFER
    THEN [s |-> [s EXCEPT
                   !.mem = StoreBytes(s.mem, s.writer.position,
                                      SubSeq(value, 1, length)),
                   !.writer.position =
                       (s.writer.position + length
                           + ((s.writer.position + length) % 2)) % SizeMod],
          err |-> LB_WRITER_ERROR_NONE]
    ELSE LET r == fwrite(s.store, s.wfile, SubSeq(value, 1, length))
             t == [s EXCEPT !.fwrites = @ + 1]
         IN IF r.n # 1
            THEN [s |-> t, err |-> LB_WRITER_ERROR_FULL]
            ELSE [s |-> [t EXCEPT !.store = r.store, !.wfile = r.off],
                  err |-> LB_WRITER_ERROR_NONE]

lbWriteUnsafe(s, value, length) ==
    IF s.writer.mode = LB_WRITER_MODE_BUFFER
    THEN [s |-> [s EXCEPT
                   !.mem = StoreBytes(s.mem, s.writer.position,
                                      SubSeq(value, 1, length)),
                   !.writer.position =
                       (s.writer.position + length) % SizeMod],
          err |-> LB_WRITER_ERROR_NONE]
    ELSE LET r == fwrite(s.store, s.wfile, SubSeq(value, 1, length))
             t == [s EXCEPT !.fwrites = @ + 1]
         IN IF r.n # 1
            THEN [s |-> t, err |-> LB_WRITER_ERROR_FULL]
            ELSE [s |-> [t EXCEPT !.store = r.store, !.wfile = r.off],
                  err |-> LB_WRITER_ERROR_NONE]

lbWrite(s, value, length) ==
    LET e == lbWriterCheckSafety("cursor" \in s.nulls, s.writer,
                                 "value" \in s.nulls, length)
    IN IF e # LB_WRITER_ERROR_NONE THEN [s |-> s, err |-> e]
       ELSE lbWriteUnsafe(s, value, length)

\* a File-mode loop that sends value[i] first
RECURSIVE WriteReversedFileForward(_, _, _, _)
WriteReversedFileForward(s, value, length, i) ==
    IF i >= length THEN [s |-> s, err |-> LB_WRITER_ERROR_NONE]
    ELSE LET r == fwrite(s.store, s.wfile, <<value[i + 1]>>)
             t == [s EXCEPT !.fwrites = @ + 1]
         IN IF r.n # 1 THEN [s |-> t, err |-> LB_WRITER_ERROR_FULL]
            ELSE WriteReversedFileForward(
                     [t EXCEPT !.store = r.store, !.wfile = r.off],
                     value, length, i + 1)

\* the File-mode loop of lbWriteReversedUnsafe from index i on: one
\* fwrite of one byte per iteration, value[length - 1 - i] first
RECURSIVE WriteReversedFile(_, _, _, _)
WriteReversedFile(s, value, length, i) ==
    IF i >= length THEN [s |-> s, err |-> LB_WRITER_ERROR_NONE]
    ELSE LET r == fwrite(s.store, s.wfile, <<value[length - i]>>)
             t == [s EXCEPT !.fwrites = @ + 1]
         IN IF r.n # 1 THEN [s |-> t, err |-> LB_WRITER_ERROR_FULL]
            ELSE WriteReversedFile(
                     [t EXCEPT !.store = r.store, !.wfile = r.off],
                     value, length, i + 1)

lbWriteReversedUnsafe(s, value, length) ==
    IF s.writer.mode = LB_WRITER_MODE_BUFFER
    THEN [s |-> [s EXCEPT
                   !.mem = StoreBytes(s.mem, s.writer.position,
                               [i \in 1..length |-> value[length + 1 - i]]),
                   !.writer.position =
                       (s.writer.position + length) % SizeMod],
          err |-> LB_WRITER_ERROR_NONE]
    ELSE WriteReversedFile(s, value, length, 0)

lbWriteReversed(s, value, length) ==
    LET e == lbWriterCheckSafety("cursor" \in s.nulls, s.writer,
                                 "value" \in s.nulls, length)
    IN IF e # LB_WRITER_ERROR_NONE THEN [s |-> s, err |-> e]
       ELSE lbWriteReversedUnsafe(s, value, length)

lbWriteLE(s, value, length) ==
    IF HostLittleEndian THEN lbWrite(s, value, length)
    ELSE lbWriteReversed(s, value, length)

\* lbWriteBE with the two branches of the byte-order #if exchanged
lbWriteBESwapped(s, value, length) ==
    IF HostLittleEndian THEN lbWrite(s, value, length)
    ELSE lbWriteReversed(s, value, length)

lbWriteBE(s, value, length) ==
    IF HostLittleEndian THEN lbWriteReversed(s, value, length)
    ELSE lbWrite(s, value, length)

\* lbWriteU8 .. lbWriteF64 and their LE / BE variants: the value v of
\* sizeof(value) = Len(v) bytes, written in byte order ord
lbWriteTyped(s, v, ord) ==
    IF ord = "native" THEN lbWrite(s, NativeBytes(v), Len(v))
    ELSE IF ord = "LE" THEN lbWriteLE(s, NativeBytes(v), Len(v))
    ELSE lbWriteBE(s, NativeBytes(v), Len(v))

\* the safety macros testing the upper end of the range only
NormalizedSafetyUpperOnly(w, sgn, v) ==
    LET e == lbWriterCheckSafety(FALSE, w, FALSE, 1)
    IN IF v[1] > v[2] THEN OrFlag(e, LB_WRITER_ERROR_INVALID_VALUE) ELSE e

\* LB_WRITER_NORMALIZED_UNSIGNED_SAFETY / LB_WRITER_NORMALIZED_SIGNED_SAFETY:
\* the error the macro returns, NONE when it lets the write proceed
NormalizedSafety(w, sgn, v) ==
    LET e == lbWriterCheckSafety(FALSE, w, FALSE, 1)
    IN IF (sgn /\ SignedOutOfRange(v)) \/ (~sgn /\ UnsignedOutOfRange(v))
       THEN OrFlag(e, LB_WRITER_ERROR_INVALID_VALUE)
       ELSE e

\* lbWriteNU8 .. lbWriteNU64 (sgn = FALSE), lbWriteNI8 .. lbWriteNI64
\* (sgn = TRUE) with sizeof(normalized) = n; q is the value the cast gave
\* to `normalized`.  The LE and BE variants call the same function.
lbWriteNormalized(s, sgn, n, v, q) ==
    LET e == NormalizedSafety(s.writer, sgn, v)
    IN IF e # LB_WRITER_ERROR_NONE THEN [s |-> s, err |-> e]
       ELSE lbWriteUnsafe(s, NativeBytes(q), n)

\* lbWriteNU8LE .. lbWriteNI64LE and lbWriteNU8BE .. lbWriteNI64BE: each
\* returns what the native-order writer of its width returns; ord is the
\* byte order in the name of the function called
lbWriteNormalizedOrdered(s, sgn, n, ord, v, q) ==
    lbWriteNormalized(s, sgn, n, v, q)

(* --------------------------- LB_Reader ---------------------------------- *)

\* the compound literal lbReaderInitBuffer assigns to *reader
ReaderBuffer(data, length) ==
    [mode |-> LB_READER_MODE_BUFFER, data |-> data, length |-> length,
     position |-> 0, file |-> NULL]

\* the compound literal lbReaderInitFile assigns to *reader
ReaderFile(file) ==
    [mode |-> LB_READER_MODE_FILE, data |-> NULL, length |-> 0,
     position |-> 0, file |-> file]

\* lbReaderInitBuffer accepting a length of zero
lbReaderInitBufferAnyLength(s, data, length) ==
    LET e1 == IF "cursor" \in s.nulls THEN LB_READER_INIT_NO_READER
              ELSE LB_READER_INIT_NONE
        e2 == IF data = NULL THEN OrFlag(e1, LB_READER_INIT_DATA_NULL)
              ELSE e1
    IN IF e2 # LB_READER_INIT_NONE THEN [s |-> s, err |-> e2]
       ELSE [s |-> [s EXCEPT !.reader = ReaderBuffer(data, length)],
             err |-> LB_READER_INIT_NONE]

lbReaderInitBuffer(s, data, length) ==
    LET e1 == IF "cursor" \in s.nulls THEN LB_READER_INIT_NO_READER
              ELSE LB_READER_INIT_NONE
        e2 == IF data = NULL THEN OrFlag(e1, LB_READER_INIT_DATA_NULL)
              ELSE e1
        e3 == IF length = 0 THEN OrFlag(e2, LB_READER_INIT_LENGTH_ZERO)
              ELSE e2
    IN IF e3 # LB_READER_INIT_NONE THEN [s |-> s, err |-> e3]
       ELSE [s |-> [s EXCEPT !.reader = ReaderBuffer(data, length)],
             err |-> LB_READER_INIT_NONE]

\* reader is not tested: the function is called with a reader to assign to
lbReaderInitFile(s, file) ==
    IF file = NULL THEN [s |-> s, err |-> LB_READER_INIT_DATA_NULL]
    ELSE [s |-> [s EXCEPT !.reader = ReaderFile(file)],
          err |-> LB_READER_INIT_NONE]

\* lbReaderCheckSafety comparing the position alone with the length
lbReaderCheckSafetyNoLength(readerNull, r, outNull, length) ==
    LET e1 == IF readerNull THEN LB_READER_ERROR_READER_NULL
              ELSE IF r.mode = LB_READER_MODE_BUFFER
              THEN LET end == IF r.position > r.length
                              THEN LB_READER_ERROR_END
                              ELSE LB_READER_ERROR_NONE
                   IN IF r.data = NULL
                      THEN OrFlag(end, LB_READER_ERROR_DATA_NULL)
                      ELSE end
              ELSE IF r.file = NULL THEN LB_READER_ERROR_DATA_NULL
              ELSE LB_READER_ERROR_NONE
    IN IF outNull THEN OrFlag(e1, LB_READER_ERROR_INVALID_VALUE) ELSE e1

\* readerNull: reader == NULL; outNull: out_value == NULL
lbReaderCheckSafety(readerNull, r, outNull, length) ==
    LET e1 == IF readerNull THEN LB_READER_ERROR_READER_NULL
              ELSE IF r.mode = LB_READER_MODE_BUFFER
              THEN LET end == IF (r.position + length) % SizeMod > r.length
                              THEN LB_READER_ERROR_END
                              ELSE LB_READER_ERROR_NONE
                   IN IF r.data = NULL
                      THEN OrFlag(end, LB_READER_ERROR_DATA_NULL)
                      ELSE end
              ELSE IF r.file = NULL THEN LB_READER_ERROR_DATA_NULL
              ELSE LB_READER_ERROR_NONE
    IN IF outNull THEN OrFlag(e1, LB_READER_ERROR_INVALID_VALUE) ELSE e1

\* lbReaderSeek cutting the region down to what lies behind the position
lbReaderSeekShrinking(s, position) ==
    IF s.reader.mode = LB_READER_MODE_BUFFER
    THEN IF position >= s.reader.length
         THEN [s |-> s, err |-> LB_READER_ERROR_END]
         ELSE [s |-> [s EXCEPT !.reader.position = 0,
                               !.reader.length = @ - position],
               err |-> LB_READER_ERROR_NONE]
    ELSE LET r == fseek(s.rfile, position)
         IN IF r.rc # 0
            THEN [s |-> s, err |-> LB_READER_ERROR_END]
            ELSE [s |-> [s EXCEPT !.rfile = r.off],
                  err |-> LB_READER_ERROR_NONE]

lbReaderSeek(s, position) ==
    IF s.reader.mode = LB_READER_MODE_BUFFER
    THEN IF position >= s.reader.length
         THEN [s |-> s, err |-> LB_READER_ERROR_END]
         ELSE [s |-> [s EXCEPT !.reader.position = position],
               err |-> LB_READER_ERROR_NONE]
    ELSE LET r == fseek(s.rfile, position)
         IN IF r.rc # 0
            THEN [s |-> s, err |-> LB_READER_ERROR_END]
            ELSE [s |-> [s EXCEPT !.rfile = r.off],
                  err |-> LB_READER_ERROR_NONE]

\* lbReaderTell
lbReaderPosition(s) ==
    IF s.reader.mode = LB_READER_MODE_BUFFER THEN s.reader.position
    ELSE s.rfile

\* lbReaderLength leaving the position indicator at the end of the file
lbReaderLengthNoRestore(s) ==
    IF s.reader.mode = LB_READER_MODE_BUFFER
    THEN [s |-> s, ret |-> s.reader.length]
    ELSE LET atEnd == fseekEnd(s.store).off
             end == ftell(atEnd)
         IN [s |-> [s EXCEPT !.rfile = atEnd], ret |-> end]

\* lbReaderLength: [s, ret]
lbReaderLength(s) ==
    IF s.reader.mode = LB_READER_MODE_BUFFER
    THEN [s |-> s, ret |-> s.reader.length]
    ELSE LET position == ftell(s.rfile)
             atEnd == fseekEnd(s.store).off
             end == ftell(atEnd)
             back == fseek(atEnd, position).off
         IN [s |-> [s EXCEPT !.rfile = back], ret |-> end]

\* lbReaderRemaining: [s, ret], the difference taken in size_t
lbReaderRemaining(s) ==
    LET l == lbReaderLength(s)
    IN [s |-> l.s,
        ret |-> (l.ret - lbReaderPosition(l.s) + SizeMod) % SizeMod]

lbReadUnsafe(s, length) ==
    IF s.reader.mode = LB_READER_MODE_BUFFER
    THEN [s |-> [s EXCEPT !.reader.position =
                              (s.reader.position + length) % SizeMod],
          err |-> LB_READER_ERROR_NONE,
          out |-> LoadBytes(s.mem, s.reader.position, length)]
    ELSE LET r == fread(s.store, s.rfile, length)
             t == [s EXCEPT !.rfile = r.off]
         IN IF r.n # 1
            THEN [s |-> t, err |-> LB_READER_ERROR_END, out |-> r.out]
            ELSE [s |-> t, err |-> LB_READER_ERROR_NONE, out |-> r.out]

lbRead(s, length) ==
    LET e == lbReaderCheckSafety("cursor" \in s.nulls, s.reader,
                                 "value" \in s.nulls, length)
    IN IF e # LB_READER_ERROR_NONE THEN [s |-> s, err |-> e, out |-> <<>>]
       ELSE lbReadUnsafe(s, length)

\* the swap loop stopping one exchange short of the middle
RECURSIVE SwapLoopShort(_, _, _)
SwapLoopShort(out, length, i) ==
    IF i >= length \div 2 - 1 THEN out
    ELSE SwapLoopShort([out EXCEPT ![i + 1] = out[length - i],
                                   ![length - i] = out[i + 1]],
                       length, i + 1)

\* the swap loop of the File-mode lbReadReversedUnsafe from index i on:
\* out[i] and out[length - 1 - i] change places while i < length / 2
RECURSIVE SwapLoop(_, _, _)
SwapLoop(out, length, i) ==
    IF i >= length \div 2 THEN out
    ELSE SwapLoop([out EXCEPT ![i + 1] = out[length - i],
                              ![length - i] = out[i + 1]],
                  length, i + 1)

\* lbReadReversedUnsafe whose Buffer-mode loop stores byte i at index i
lbReadReversedUnsafeForward(s, length) ==
    IF s.reader.mode = LB_READER_MODE_BUFFER
    THEN [s |-> [s EXCEPT !.reader.position =
                              (s.reader.position + length) % SizeMod],
          err |-> LB_READER_ERROR_NONE,
          out |-> LoadBytes(s.mem, s.reader.position, length)]
    ELSE LET r == fread(s.store, s.rfile, length)
             t == [s EXCEPT !.rfile = r.off]
         IN IF r.n # 1
            THEN [s |-> t, err |-> LB_READER_ERROR_END, out |-> r.out]
            ELSE [s |-> t, err |-> LB_READER_ERROR_NONE,
                  out |-> SwapLoop(r.out, length, 0)]

lbReadReversedUnsafe(s, length) ==
    IF s.reader.mode = LB_READER_MODE_BUFFER
    THEN [s |-> [s EXCEPT !.reader.position =
                              (s.reader.position + length) % SizeMod],
          err |-> LB_READER_ERROR_NONE,
          out |-> [k \in 1..length |->
                      LoadBytes(s.mem, s.reader.position, length)
                          [length + 1 - k]]]
    ELSE LET r == fread(s.store, s.rfile, length)
             t == [s EXCEPT !.rfile = r.off]
         IN IF r.n # 1
            THEN [s |-> t, err |-> LB_READER_ERROR_END, out |-> r.out]
            ELSE [s |-> t, err |-> LB_READER_ERROR_NONE,
                  out |-> SwapLoop(r.out, length, 0)]

\* a checked reversed read that forwards to the forward copy
lbReadReversedForward(s, length) ==
    LET e == lbReaderCheckSafety("cursor" \in s.nulls, s.reader,
                                 "value" \in s.nulls, length)
    IN IF e # LB_READER_ERROR_NONE THEN [s |-> s, err |-> e, out |-> <<>>]
       ELSE lbReadUnsafe(s, length)

lbReadReversed(s, length) ==
    LET e == lbReaderCheckSafety("cursor" \in s.nulls, s.reader,
                                 "value" \in s.nulls, length)
    IN IF e # LB_READER_ERROR_NONE THEN [s |-> s, err |-> e, out |-> <<>>]
       ELSE lbReadReversedUnsafe(s, length)

\* lbReadLE with the two branches of the byte-order #if exchanged
lbReadLESwapped(s, length) ==
    IF HostLittleEndian THEN lbReadReversed(s, length) ELSE lbRead(s, length)

lbReadLE(s, length) ==
    IF HostLittleEndian THEN lbRead(s, length) ELSE lbReadReversed(s, length)

lbReadBE(s, length) ==
    IF HostLittleEndian THEN lbReadReversed(s, length) ELSE lbRead(s, length)

\* lbReadU8 .. lbReadF64 and their LE / BE variants for sizeof(result) = n:
\* out holds the bytes the call stored into `result`
lbReadTyped(s, n, ord) ==
    IF ord = "native" THEN lbRead(s, n)
    ELSE IF ord = "LE" THEN lbReadLE(s, n)
    ELSE lbReadBE(s, n)

\* lbReadNU8 .. lbReadNI64 and their LE / BE variants: the integer read is
\* that of the plain accessor of the same width; the 1-byte LE / BE
\* variants call the native one
lbReadNormalized(s, n, ord) ==
    IF n = 1 THEN lbReadTyped(s, n, "native") ELSE lbReadTyped(s, n, ord)

(* ------------------------ the state machine ----------------------------- *)

\* the system state the cursor operators work on
Cur == [writer |-> writer, reader |-> reader, mem |-> mem, store |-> store,
        wfile |-> wfile, rfile |-> rfile, fwrites |-> 0, nulls |-> {}]

\* the arguments lbWriterSeek / lbReaderSeek are called with
SeekTargets == 0..(MaxLength + 1)

NoCall == [op |-> "none", n |-> 0, ord |-> "native", p |-> 0, pos |-> 0,
           err |-> 0, val |-> <<>>, out |-> <<>>, sgn |-> FALSE,
           v |-> <<0, 1>>, fwrites |-> 0, nulls |-> {}, rev |-> FALSE,
           data |-> NULL, ret |-> 0, alt |-> <<>>]

\* what the caller owns when the cursors are constructed: the region and
\* the memory after it, the file, and its two freshly opened handles
InitStorage ==
    /\ mem = [i \in 1..(MaxLength + Slack) |-> InitByte(i - 1)]
    /\ store = [i \in 1..MaxStore |-> StoreByte(i - 1)]
    /\ wfile = 0
    /\ rfile = 0
    /\ last = NoCall
    /\ prev = NoCall
    /\ pre = [writer |-> writer, reader |-> reader, mem |-> mem,
              store |-> store, wfile |-> wfile, rfile |-> rfile,
              fwrites |-> 0, nulls |-> {}]
    /\ ops = 0
    /\ log = <<>>
    /\ arena = NoArena
    /\ acall = NoArenaCall

\* a writer and a reader constructed over the same region
InitBuffer ==
    /\ writer = WriterBuffer("region", MaxLength)
    /\ reader = ReaderBuffer("region", MaxLength)
    /\ InitStorage

\* a writer and a reader constructed over two handles of the same file
InitFile ==
    /\ writer = WriterFile("wfile")
    /\ reader = ReaderFile("rfile")
    /\ InitStorage

Init == InitBuffer \/ InitFile

\* the call `call` took the system from Cur to t
Record(t, call) ==
    /\ writer' = t.writer
    /\ reader' = t.reader
    /\ mem' = t.mem
    /\ store' = t.store
    /\ wfile' = t.wfile
    /\ rfile' = t.rfile
    /\ last' = [call EXCEPT !.fwrites = t.fwrites]
    /\ prev' = last
    /\ pre' = Cur
    /\ ops' = ops + 1
    /\ UNCHANGED <<arena, acall>>

\* a call outside a write-then-read-back sequence
Apply(t, call) ==
    /\ Record(t, call)
    /\ log' = log

\* a call of a write-then-read-back sequence
Logged(t, call) ==
    /\ Record(t, call)
    /\ log' = Append(log, call)

WriterSeekCall(r, pos) ==
    [NoCall EXCEPT !.op = "lbWriterSeek", !.pos = pos,
                   !.p = lbWriterPosition(Cur), !.err = r.err]

WriterSeek(pos) ==
    /\ ops < MaxOps
    /\ LET r == lbWriterSeek(Cur, pos)
       IN Apply(r.s, WriterSeekCall(r, pos))

ReaderSeekCall(r, pos) ==
    [NoCall EXCEPT !.op = "lbReaderSeek", !.pos = pos,
                   !.p = lbReaderPosition(Cur), !.err = r.err]

ReaderSeek(pos) ==
    /\ ops < MaxOps
    /\ LET r == lbReaderSeek(Cur, pos)
       IN Apply(r.s, ReaderSeekCall(r, pos))

WriteTypedCall(r, n, ord, v) ==
    [NoCall EXCEPT !.op = "lbWriteTyped", !.n = n, !.ord = ord,
                   !.p = lbWriterPosition(Cur), !.err = r.err, !.val = v]

\* lbWriteU8 .. lbWriteF64, lbWriteU8LE .. lbWriteF64LE,
\* lbWriteU8BE .. lbWriteF64BE
WriteTyped(n, ord, v) ==
    /\ ops < MaxOps
    /\ LET r == lbWriteTyped(Cur, v, ord)
       IN Apply(r.s, WriteTypedCall(r, n, ord, v))

ReadTypedCall(r, n, ord) ==
    [NoCall EXCEPT !.op = "lbReadTyped", !.n = n, !.ord = ord,
                   !.p = lbReaderPosition(Cur), !.err = r.err,
                   !.out = r.out]

\* lbReadU8 .. lbReadF64, lbReadU8LE .. lbReadF64LE,
\* lbReadU8BE .. lbReadF64BE
ReadTyped(n, ord) ==
    /\ ops < MaxOps
    /\ LET r == lbReadTyped(Cur, n, ord)
       IN Apply(r.s, ReadTypedCall(r, n, ord))

\* lbWriteNU8 .. lbWriteNI64; the LE and BE variants forward to these.
\* The cast that computes `normalized` runs before the safety macro; its
\* result q is dropped when the macro returns early.
WriteNormalized(sgn, n, v) ==
    /\ ops < MaxOps
    /\ \E q \in IF NormalizedSafety(writer, sgn, v) = LB_WRITER_ERROR_NONE
                 THEN Normalize(sgn, n, v) ELSE {<<>>} :
           LET r == lbWriteNormalized(Cur, sgn, n, v, q)
           IN Apply(r.s, [NoCall EXCEPT !.op = "lbWriteNormalized", !.n = n,
                                        !.sgn = sgn, !.v = v,
                                        !.p = lbWriterPosition(Cur),
                                        !.err = r.err, !.val = q])

\* lbReadNU8 .. lbReadNI64 and their LE / BE variants
ReadNormalized(sgn, n, ord) ==
    /\ ops < MaxOps
    /\ LET r == lbReadNormalized(Cur, n, ord)
       IN Apply(r.s, [NoCall EXCEPT !.op = "lbReadNormalized", !.n = n,
                                !.ord = ord, !.sgn = sgn,
                                !.p = lbReaderPosition(Cur), !.err = r.err,
                                !.out = r.out])

Next ==
    \/ \E pos \in SeekTargets : WriterSeek(pos)
    \/ \E pos \in SeekTargets : ReaderSeek(pos)
    \/ \E n \in Widths, ord \in Orders : \E v \in TypedValues(n) :
           WriteTyped(n, ord, v)
    \/ \E n \in Widths, ord \in Orders : ReadTyped(n, ord)
    \/ \E sgn \in BOOLEAN, n \in Widths, v \in NormValues :
           WriteNormalized(sgn, n, v)
    \/ \E sgn \in BOOLEAN, n \in Widths, ord \in Orders :
           ReadNormalized(sgn, n, ord)

\* both backends
Spec == Init /\ [][Next]_vars

\* the Buffer backend alone
SpecBuffer == InitBuffer /\ [][Next]_vars

\* the File backend alone
SpecFile == InitFile /\ [][Next]_vars

(* A write followed by a read of the same bytes: the caller moves the      *)
(* writer to an offset, the reader to the same offset, writes one typed    *)
(* value and reads one back.                                               *)

RoundTripSeekWriter(pos) ==
    LET r == lbWriterSeek(Cur, pos)
    IN ops = 0 /\ Apply(r.s, WriterSeekCall(r, pos))

RoundTripSeekReader ==
    LET r == lbReaderSeek(Cur, last.pos)
    IN ops = 1 /\ Apply(r.s, ReaderSeekCall(r, last.pos))

RoundTripWrite(n, ord, v) ==
    LET r == lbWriteTyped(Cur, v, ord)
    IN ops = 2 /\ Apply(r.s, WriteTypedCall(r, n, ord, v))

RoundTripRead(n, ord) ==
    LET r == lbReadTyped(Cur, n, ord)
    IN ops = 3 /\ Apply(r.s, ReadTypedCall(r, n, ord))

NextRoundTrip ==
    \/ \E pos \in SeekTargets : RoundTripSeekWriter(pos)
    \/ RoundTripSeekReader
    \/ \E n \in Widths, ord \in Orders : \E v \in TypedValues(n) :
           RoundTripWrite(n, ord, v)
    \/ \E n \in Widths, ord \in Orders : RoundTripRead(n, ord)

SpecRoundTrip == InitBuffer /\ [][NextRoundTrip]_vars

(* The reversed transfers called directly, with lengths that no typed      *)
(* accessor uses.                                                          *)

\* the `length` argument of lbWriteReversed / lbReadReversed
TransferLengths == 1..8

\* lbWriteReversed(writer, value, n) with value pointing at the n bytes v
WriteReversed(n, v) ==
    /\ ops < MaxOps
    /\ LET r == lbWriteReversed(Cur, v, n)
       IN Apply(r.s, [NoCall EXCEPT !.op = "lbWriteReversed", !.n = n,
                                !.p = lbWriterPosition(Cur), !.err = r.err,
                                !.val = v])

\* lbReadReversed(reader, out_value, n)
ReadReversed(n) ==
    /\ ops < MaxOps
    /\ LET r == lbReadReversed(Cur, n)
       IN Apply(r.s, [NoCall EXCEPT !.op = "lbReadReversed", !.n = n,
                                !.p = lbReaderPosition(Cur), !.err = r.err,
                                !.out = r.out])

NextReversed ==
    \/ \E pos \in SeekTargets : WriterSeek(pos)
    \/ \E pos \in SeekTargets : ReaderSeek(pos)
    \/ \E n \in TransferLengths : \E v \in TypedValues(n) :
           WriteReversed(n, v)
    \/ \E n \in TransferLengths : ReadReversed(n)

SpecReversed == Init /\ [][NextReversed]_vars

(* A normalized write followed by a normalized read of the same bytes.     *)

\* float / double arguments inside [-1, 1], exact in both formats
RoundTripValues ==
    { <<-1, 1>>, <<-3, 4>>, <<-1, 2>>, <<-1, 4>>, <<0, 1>>,
      <<1, 4>>, <<1, 2>>, <<3, 4>>, <<1, 1>> }

\* lbWriteNU8 .. lbWriteNI64BE: the writer named by sgn, n and ord
NormRoundTripWrite(sgn, n, ord, v) ==
    /\ ops = 2
    /\ \E q \in IF NormalizedSafety(writer, sgn, v) = LB_WRITER_ERROR_NONE
                 THEN Normalize(sgn, n, v) ELSE {<<>>} :
           LET r == lbWriteNormalizedOrdered(Cur, sgn, n, ord, v, q)
           IN Apply(r.s, [NoCall EXCEPT !.op = "lbWriteNormalized", !.n = n,
                                        !.sgn = sgn, !.ord = ord, !.v = v,
                                        !.p = lbWriterPosition(Cur),
                                        !.err = r.err, !.val = q])

\* lbReadNU8 .. lbReadNI64BE: the reader named by sgn, n and ord
NormRoundTripRead(sgn, n, ord) ==
    /\ ops = 3
    /\ LET r == lbReadNormalized(Cur, n, ord)
       IN Apply(r.s, [NoCall EXCEPT !.op = "lbReadNormalized", !.n = n,
                                !.ord = ord, !.sgn = sgn,
                                !.p = lbReaderPosition(Cur), !.err = r.err,
                                !.out = r.out])

NextNormRoundTrip ==
    \/ \E pos \in SeekTargets : RoundTripSeekWriter(pos)
    \/ RoundTripSeekReader
    \/ \E sgn \in BOOLEAN, n \in Widths, ord \in Orders :
          \E v \in RoundTripValues : NormRoundTripWrite(sgn, n, ord, v)
    \/ \E sgn \in BOOLEAN, n \in Widths, ord \in Orders :
          NormRoundTripRead(sgn, n, ord)

SpecNormRoundTrip == InitBuffer /\ [][NextNormRoundTrip]_vars

(* A sequence of typed values written through a File-mode writer from    *)
(* offset 0 and read back through a File-mode reader from offset 0, as in  *)
(* main: every value with the same accessor.                               *)

\* the number of writes in the sequence so far
Written == Cardinality({i \in 1..Len(log) : log[i].op = "lbWriteTyped"})

SequenceWrite(n, ord, v) ==
    /\ Len(log) < MaxValues
    /\ \A i \in 1..Len(log) :
           log[i].op = "lbWriteTyped" /\ log[i].n = n /\ log[i].ord = ord
    /\ LET r == lbWriteTyped(Cur, v, ord)
       IN Logged(r.s, WriteTypedCall(r, n, ord, v))

SequenceRead ==
    /\ log # <<>>
    /\ Len(log) - Written < Written
    /\ LET r == lbReadTyped(Cur, log[1].n, log[1].ord)
       IN Logged(r.s, ReadTypedCall(r, log[1].n, log[1].ord))

NextSequence ==
    \/ \E n \in Widths, ord \in Orders : \E v \in TypedValues(n) :
           SequenceWrite(n, ord, v)
    \/ SequenceRead

SpecSequence == InitFile /\ [][NextSequence]_vars

(* Every operation of a constructed cursor, the queries included.  The    *)
(* values written are one per width: what is checked here is what the      *)
(* calls leave alone.                                                      *)

\* lbWriterTell, lbWriterLength, lbWriterRemaining, lbReaderTell,
\* lbReaderLength, lbReaderRemaining
Queries ==
    { "lbWriterTell", "lbWriterLength", "lbWriterRemaining",
      "lbReaderTell", "lbReaderLength", "lbReaderRemaining" }

Query(q) ==
    /\ ops < MaxOps
    /\ LET r == CASE q = "lbWriterTell" ->
                       [s |-> Cur, ret |-> lbWriterPosition(Cur)]
                 [] q = "lbWriterLength" -> lbWriterLength(Cur)
                 [] q = "lbWriterRemaining" -> lbWriterRemaining(Cur)
                 [] q = "lbReaderTell" ->
                       [s |-> Cur, ret |-> lbReaderPosition(Cur)]
                 [] q = "lbReaderLength" -> lbReaderLength(Cur)
                 [] q = "lbReaderRemaining" -> lbReaderRemaining(Cur)
       IN Apply(r.s, [NoCall EXCEPT !.op = q, !.ret = r.ret,
                                !.p = IF q \in {"lbWriterTell",
                                                "lbWriterLength",
                                                "lbWriterRemaining"}
                                      THEN lbWriterPosition(Cur)
                                      ELSE lbReaderPosition(Cur)])

\* the first of the plain values of width n
FirstValue(n) == SubSeq(<<120, 86, 52, 18, 240, 222, 188, 154>>, 1, n)

NextFrame ==
    \/ \E pos \in SeekTargets : WriterSeek(pos)
    \/ \E pos \in SeekTargets : ReaderSeek(pos)
    \/ \E n \in Widths, ord \in Orders : WriteTyped(n, ord, FirstValue(n))
    \/ \E n \in Widths, ord \in Orders : ReadTyped(n, ord)
    \/ \E n \in Widths, v \in {<<1, 2>>, <<3, 2>>} :
           WriteNormalized(FALSE, n, v)
    \/ \E n \in Widths : ReadNormalized(FALSE, n, "native")
    \/ \E n \in {3, 5} : WriteReversed(n, FirstValue(n))
    \/ \E n \in {3, 5} : ReadReversed(n)
    \/ \E q \in Queries : Query(q)

SpecFrame == Init /\ [][NextFrame]_vars

(* Construction and the safety checks: the caller constructs a cursor in  *)
(* memory that holds anything a cursor object can hold, then makes one     *)
(* checked access, passing pointers that may be NULL.                      *)

\* what the memory of an LB_Writer may hold before lbWriterInit* is called:
\* zero bytes, a zeroed File-mode cursor, or an earlier construction
PriorWriters ==
    { WriterBuffer(NULL, 0), WriterFile(NULL),
      WriterBuffer("region", MaxLength), WriterFile("wfile") }

PriorReaders ==
    { ReaderBuffer(NULL, 0), ReaderFile(NULL),
      ReaderBuffer("region", MaxLength), ReaderFile("rfile") }

\* the `length` argument of lbWriterInitBuffer / lbReaderInitBuffer
InitLengths == {0, 4, MaxLength}

\* the sets of pointer arguments a call may pass as NULL
NullArgs == SUBSET {"cursor", "value"}

InitSafety ==
    /\ writer \in PriorWriters
    /\ reader \in PriorReaders
    /\ InitStorage

WriterInitBuffer(cnull, data, length) ==
    /\ ops = 0
    /\ LET r == lbWriterInitBuffer([Cur EXCEPT !.nulls = cnull], data, length)
       IN Apply(r.s, [NoCall EXCEPT !.op = "lbWriterInitBuffer",
                                !.nulls = cnull, !.data = data,
                                !.n = length, !.err = r.err])

WriterInitFile(file) ==
    /\ ops = 0
    /\ LET r == lbWriterInitFile(Cur, file)
       IN Apply(r.s, [NoCall EXCEPT !.op = "lbWriterInitFile",
                                !.data = file, !.err = r.err])

ReaderInitBuffer(cnull, data, length) ==
    /\ ops = 0
    /\ LET r == lbReaderInitBuffer([Cur EXCEPT !.nulls = cnull], data, length)
       IN Apply(r.s, [NoCall EXCEPT !.op = "lbReaderInitBuffer",
                                !.nulls = cnull, !.data = data,
                                !.n = length, !.err = r.err])

ReaderInitFile(file) ==
    /\ ops = 0
    /\ LET r == lbReaderInitFile(Cur, file)
       IN Apply(r.s, [NoCall EXCEPT !.op = "lbReaderInitFile",
                                !.data = file, !.err = r.err])

\* lbWrite (rev = FALSE) or lbWriteReversed (rev = TRUE) of n bytes
CheckedWrite(nulls, rev, n, v) ==
    /\ ops = 1
    /\ LET s == [Cur EXCEPT !.nulls = nulls]
           r == IF rev THEN lbWriteReversed(s, v, n) ELSE lbWrite(s, v, n)
       IN Apply(r.s, [NoCall EXCEPT !.op = "lbWrite", !.nulls = nulls,
                                !.rev = rev, !.n = n,
                                !.p = lbWriterPosition(Cur), !.err = r.err,
                                !.val = v])

\* lbRead (rev = FALSE) or lbReadReversed (rev = TRUE) of n bytes
CheckedRead(nulls, rev, n) ==
    /\ ops = 1
    /\ LET s == [Cur EXCEPT !.nulls = nulls]
           r == IF rev THEN lbReadReversed(s, n) ELSE lbRead(s, n)
       IN Apply(r.s, [NoCall EXCEPT !.op = "lbRead", !.nulls = nulls,
                                !.rev = rev, !.n = n,
                                !.p = lbReaderPosition(Cur), !.err = r.err,
                                !.out = r.out])

NextSafety ==
    \/ \E cnull \in SUBSET {"cursor"}, data \in {"region", NULL},
          length \in InitLengths : WriterInitBuffer(cnull, data, length)
    \/ \E file \in {"wfile", NULL} : WriterInitFile(file)
    \/ \E cnull \in SUBSET {"cursor"}, data \in {"region", NULL},
          length \in InitLengths : ReaderInitBuffer(cnull, data, length)
    \/ \E file \in {"rfile", NULL} : ReaderInitFile(file)
    \/ \E nulls \in NullArgs, rev \in BOOLEAN, n \in Widths :
          \E v \in TypedValues(n) : CheckedWrite(nulls, rev, n, v)
    \/ \E nulls \in NullArgs, rev \in BOOLEAN, n \in Widths :
          CheckedRead(nulls, rev, n)

SpecSafety == InitSafety /\ [][NextSafety]_vars

(* The safety checks called as lbRead / lbWrite call them, with any length *)
(* a size_t holds, after a seek inside the region.                         *)

\* the `length` arguments of the checks: small ones, and ones near SIZE_MAX
CheckLengths ==
    {0, 1, 2, MaxLength - 1, MaxLength, MaxLength + 1, SizeMod \div 2,
     SizeMod - MaxLength, SizeMod - 2, SizeMod - 1}

\* lbWriterCheckSafety(writer, value, length) with value non-NULL
WriterCheck(length) ==
    /\ ops < MaxOps
    /\ LET e == lbWriterCheckSafety(FALSE, writer, FALSE, length)
       IN Apply(Cur, [NoCall EXCEPT !.op = "lbWriterCheckSafety",
                                   !.n = length,
                                   !.p = lbWriterPosition(Cur),
                                   !.err = e])

\* lbReaderCheckSafety(reader, out_value, length) with out_value non-NULL
ReaderCheck(length) ==
    /\ ops < MaxOps
    /\ LET e == lbReaderCheckSafety(FALSE, reader, FALSE, length)
       IN Apply(Cur, [NoCall EXCEPT !.op = "lbReaderCheckSafety",
                                   !.n = length,
                                   !.p = lbReaderPosition(Cur),
                                   !.err = e])

NextBounds ==
    \/ \E pos \in SeekTargets : WriterSeek(pos)
    \/ \E pos \in SeekTargets : ReaderSeek(pos)
    \/ \E length \in CheckLengths : WriterCheck(length)
    \/ \E length \in CheckLengths : ReaderCheck(length)

SpecBounds == InitBuffer /\ [][NextBounds]_vars

(* Each checked entry point next to its unsafe counterpart: the checked    *)
(* call is made, and the unsafe call is run on a copy of the same cursor   *)
(* and storage when the safety check admits the access (an unsafe call the *)
(* check turns away would run past the region, which has no defined        *)
(* outcome to compare with).  last.ret is the check's verdict, last.alt    *)
(* the outcome of the unsafe call.                                         *)

\* lbWrite next to lbWriteUnsafe (rev = FALSE), lbWriteReversed next to
\* lbWriteReversedUnsafe (rev = TRUE)
WriteBoth(rev, n, v) ==
    /\ ops < MaxOps
    /\ LET e == lbWriterCheckSafety(FALSE, writer, FALSE, n)
           r == IF rev THEN lbWriteReversed(Cur, v, n) ELSE lbWrite(Cur, v, n)
       IN Apply(r.s,
                [NoCall EXCEPT
                   !.op = "lbWrite", !.rev = rev, !.n = n,
                   !.p = lbWriterPosition(Cur), !.err = r.err, !.val = v,
                   !.ret = e,
                   !.alt = IF e # LB_WRITER_ERROR_NONE THEN <<>>
                           ELSE IF rev
                           THEN <<lbWriteReversedUnsafe(Cur, v, n)>>
                           ELSE <<lbWriteUnsafe(Cur, v, n)>>])

\* lbRead next to lbReadUnsafe (rev = FALSE), lbReadReversed next to
\* lbReadReversedUnsafe (rev = TRUE)
ReadBoth(rev, n) ==
    /\ ops < MaxOps
    /\ LET e == lbReaderCheckSafety(FALSE, reader, FALSE, n)
           r == IF rev THEN lbReadReversed(Cur, n) ELSE lbRead(Cur, n)
       IN Apply(r.s,
                [NoCall EXCEPT
                   !.op = "lbRead", !.rev = rev, !.n = n,
                   !.p = lbReaderPosition(Cur), !.err = r.err,
                   !.out = r.out, !.ret = e,
                   !.alt = IF e # LB_READER_ERROR_NONE THEN <<>>
                           ELSE IF rev
                           THEN <<lbReadReversedUnsafe(Cur, n)>>
                           ELSE <<lbReadUnsafe(Cur, n)>>])

NextChecked ==
    \/ \E pos \in SeekTargets : WriterSeek(pos)
    \/ \E pos \in SeekTargets : ReaderSeek(pos)
    \/ \E rev \in BOOLEAN, n \in TransferLengths :
           \E v \in TypedValues(n) : WriteBoth(rev, n, v)
    \/ \E rev \in BOOLEAN, n \in TransferLengths : ReadBoth(rev, n)

SpecChecked == Init /\ [][NextChecked]_vars

(* Twins: every call is made on a Buffer-mode cursor over the region and   *)
(* on a File-mode cursor over the file.  The writers start at offset 0,    *)
(* the file empty; then readers are constructed over the bytes written,    *)
(* the Buffer-mode one with lbReaderInitBuffer(region, T), the File-mode   *)
(* one over a fresh handle of the file.  In a logged call err and out are  *)
(* the Buffer-mode results, ret and alt the File-mode ones.                *)

\* the File-mode twins on the system state
FileTwin == [Cur EXCEPT !.writer = WriterFile("wfile"),
                        !.reader = ReaderFile("rfile")]

\* the Buffer-mode cursors and region of b with the file and handles of f
Twins(b, f) == [b EXCEPT !.store = f.store, !.wfile = f.wfile,
                         !.rfile = f.rfile]

InitTwin ==
    /\ writer = WriterBuffer("region", MaxLength)
    /\ reader = ReaderBuffer("region", MaxLength)
    /\ mem = [i \in 1..(MaxLength + Slack) |-> InitByte(i - 1)]
    /\ store = <<>>
    /\ wfile = 0
    /\ rfile = 0
    /\ last = NoCall
    /\ prev = NoCall
    /\ pre = [writer |-> writer, reader |-> reader, mem |-> mem,
              store |-> store, wfile |-> wfile, rfile |-> rfile,
              fwrites |-> 0, nulls |-> {}]
    /\ ops = 0
    /\ log = <<>>
    /\ arena = NoArena
    /\ acall = NoArenaCall

\* the logged calls named op
Calls(op) == {i \in 1..Len(log) : log[i].op = op}

\* lbWrite (rev = FALSE) or lbWriteReversed (rev = TRUE) on both writers
TwinWrite(rev, n, v) ==
    /\ Cardinality(Calls("lbWrite")) < MaxOps
    /\ Calls("lbReaderInitBuffer") = {}
    /\ LET b == IF rev THEN lbWriteReversed(Cur, v, n) ELSE lbWrite(Cur, v, n)
           f == IF rev THEN lbWriteReversed(FileTwin, v, n)
                ELSE lbWrite(FileTwin, v, n)
       IN Logged(Twins(b.s, f.s),
                 [NoCall EXCEPT !.op = "lbWrite", !.rev = rev, !.n = n,
                                !.p = lbWriterPosition(Cur), !.val = v,
                                !.err = b.err, !.ret = f.err])

\* the readers are constructed over what the writers have written
TwinReadersInit ==
    /\ Calls("lbWrite") # {}
    /\ Calls("lbReaderInitBuffer") = {}
    /\ LET b == lbReaderInitBuffer(Cur, "region", lbWriterPosition(Cur))
           f == lbReaderInitFile(FileTwin, "rfile")
       IN Logged(Twins(b.s, f.s),
                 [NoCall EXCEPT !.op = "lbReaderInitBuffer",
                                !.data = "region",
                                !.n = lbWriterPosition(Cur),
                                !.err = b.err, !.ret = f.err])

\* lbRead (rev = FALSE) or lbReadReversed (rev = TRUE) on both readers
TwinRead(rev, n) ==
    /\ Cardinality(Calls("lbRead")) < MaxOps
    /\ Calls("lbReaderInitBuffer") # {}
    /\ LET b == IF rev THEN lbReadReversed(Cur, n) ELSE lbRead(Cur, n)
           f == IF rev THEN lbReadReversed(FileTwin, n)
                ELSE lbRead(FileTwin, n)
       IN Logged(Twins(b.s, f.s),
                 [NoCall EXCEPT !.op = "lbRead", !.rev = rev, !.n = n,
                                !.p = lbReaderPosition(Cur),
                                !.err = b.err, !.out = b.out,
                                !.ret = f.err, !.alt = <<f.out>>])

NextTwin ==
    \/ \E rev \in BOOLEAN, n \in Widths : TwinWrite(rev, n, FirstValue(n))
    \/ TwinReadersInit
    \/ \E rev \in BOOLEAN, n \in Widths : TwinRead(rev, n)

SpecTwin == InitTwin /\ [][NextTwin]_vars

(* The paged arena: one arena, created once, then allocations and clears.  *)

\* the cursors and their storage, which no arena call touches
cursorVars ==
    <<writer, reader, mem, store, wfile, rfile, last, prev, pre, ops, log>>

\* the default_page_capacity arguments of lbPagedArenaNew
PageCapacities == {0, 48, 64}

\* the size arguments of lbPagedArenaAlloc
AllocSizes == {0, 32, 33, 65, SizeMod \div 2, SizeMod - 1}

ArenaNew(capacity, pageOk, arenaOk) ==
    /\ ~arena.exists
    /\ acall.calls < MaxCalls
    /\ arena' = lbPagedArenaNew(capacity, pageOk, arenaOk)
    /\ acall' = [NoArenaCall EXCEPT !.op = "lbPagedArenaNew",
                                    !.size = capacity,
                                    !.page = arena'.head,
                                    !.pre = arena,
                                    !.calls = acall.calls + 1,
                                    !.before = acall.op]
    /\ UNCHANGED cursorVars

ArenaClear ==
    /\ arena.exists
    /\ acall.pc = "idle"
    /\ acall.calls < MaxCalls
    /\ arena' = lbPagedArenaClear(arena)
    /\ acall' = [NoArenaCall EXCEPT !.op = "lbPagedArenaClear",
                                    !.pre = arena,
                                    !.calls = acall.calls + 1,
                                    !.before = acall.op]
    /\ UNCHANGED cursorVars

\* what acall holds after lbPagedArenaAlloc(arena, size) with outcome r
AllocCall(size, r) ==
    [op |-> "lbPagedArenaAlloc", size |-> size, page |-> r.page,
     off |-> r.off, pc |-> IF r.hung THEN "hung" ELSE "idle",
     new_capacity |-> 0, pre |-> acall.pre,
     allocs |-> IF r.page # 0
                THEN Append(acall.allocs,
                            [page |-> r.page, off |-> r.off, size |-> size])
                ELSE acall.allocs,
     calls |-> acall.calls, before |-> acall.op]

ArenaAlloc(size, ok) ==
    /\ arena.exists
    /\ acall.pc = "idle"
    /\ acall.calls < MaxCalls
    /\ LET r == lbPagedArenaAlloc(arena, size, ok)
       IN /\ arena' = r.arena
          /\ acall' = [AllocCall(size, r) EXCEPT !.pre = arena,
                                                 !.calls = acall.calls + 1]
    /\ UNCHANGED cursorVars

NextArena ==
    \/ \E capacity \in PageCapacities, pageOk, arenaOk \in BOOLEAN :
           ArenaNew(capacity, pageOk, arenaOk)
    \/ ArenaClear
    \/ \E size \in AllocSizes, ok \in BOOLEAN : ArenaAlloc(size, ok)

SpecArena == InitBuffer /\ [][NextArena]_vars

(* lbPagedArenaAlloc one loop iteration at a time: the scan, then each      *)
(* `new_capacity *= 2`, then the page allocation and step 2.  A call that  *)
(* has started keeps running, so every step of it is weakly fair.          *)

\* the scan; a page found is bumped at once, else the doubling loop starts
\* from new_capacity = default_page_capacity
AllocBegin(size) ==
    /\ arena.exists
    /\ acall.pc = "idle"
    /\ acall.calls < MaxCalls
    /\ LET page == ScanFrom(arena.heap, arena.head, size)
       IN IF page # 0
          THEN LET r == BumpPage(arena, page, size)
               IN /\ arena' = r.arena
                  /\ acall' = [AllocCall(size, r) EXCEPT
                                  !.pre = arena,
                                  !.calls = acall.calls + 1]
          ELSE /\ arena' = arena
               /\ acall' = [acall EXCEPT
                               !.op = "lbPagedArenaAlloc",
                               !.size = size,
                               !.page = 0,
                               !.off = 0,
                               !.pc = "double",
                               !.new_capacity = arena.default_page_capacity,
                               !.pre = arena,
                               !.calls = acall.calls + 1,
                               !.before = acall.op]
    /\ UNCHANGED cursorVars

\* one iteration of `while (new_capacity < size) new_capacity *= 2`
AllocDouble ==
    /\ acall.pc = "double"
    /\ acall.new_capacity < acall.size
    /\ acall' = [acall EXCEPT
                    !.new_capacity = DoubleCapacity(acall.new_capacity)]
    /\ UNCHANGED <<arena, cursorVars>>

\* the loop has exited: the page allocation, the linking and step 2
AllocFinish(ok) ==
    /\ acall.pc = "double"
    /\ acall.new_capacity >= acall.size
    /\ LET r == AppendPage(arena, acall.new_capacity, acall.size, ok)
       IN /\ arena' = r.arena
          /\ acall' = [acall EXCEPT
                          !.page = r.page,
                          !.off = r.off,
                          !.pc = "idle",
                          !.new_capacity = 0,
                          !.allocs =
                              IF r.page # 0
                              THEN Append(@, [page |-> r.page,
                                              off |-> r.off,
                                              size |-> acall.size])
                              ELSE @]
    /\ UNCHANGED cursorVars

NextArenaSteps ==
    \/ \E capacity \in PageCapacities, pageOk, arenaOk \in BOOLEAN :
           ArenaNew(capacity, pageOk, arenaOk)
    \/ ArenaClear
    \/ \E size \in AllocSizes : AllocBegin(size)
    \/ AllocDouble
    \/ \E ok \in BOOLEAN : AllocFinish(ok)

SpecArenaSteps ==
    /\ InitBuffer
    /\ [][NextArenaSteps]_vars
    /\ WF_vars(AllocDouble)
    /\ WF_vars(\E ok \in BOOLEAN : AllocFinish(ok))

(* ============================== claims ================================= *)

\* the cursor that made the last call was in Buffer mode
WriterInBuffer == pre.writer.mode = LB_WRITER_MODE_BUFFER
ReaderInBuffer == pre.reader.mode = LB_READER_MODE_BUFFER

\* the bytes at offsets p .. p + n - 1 of memory m
BytesAt(m, p, n) == [i \in 1..n |-> m[p + i]]

\* the n digits of v as byte order ord lays them out in storage
Layout(v, ord) ==
    IF ord = "LE" THEN v
    ELSE IF ord = "BE" THEN Reverse(v)
    ELSE IF HostLittleEndian THEN v ELSE Reverse(v)

\* C1: a checked plain access of n bytes at position p of a Buffer-mode
\* cursor with p + n > length returns an error containing FULL (writer) or
\* END (reader), copies no byte and leaves the position at p.
C1_BoundsEnforced ==
    /\ (last.op = "lbWriteTyped" /\ WriterInBuffer
            /\ last.p + last.n > pre.writer.length)
        => /\ HasFlag(last.err, LB_WRITER_ERROR_FULL)
           /\ mem = pre.mem
           /\ writer.position = last.p
    /\ (last.op = "lbReadTyped" /\ ReaderInBuffer
            /\ last.p + last.n > pre.reader.length)
        => /\ HasFlag(last.err, LB_READER_ERROR_END)
           /\ last.out = <<>>
           /\ mem = pre.mem
           /\ reader.position = last.p

\* an 8-byte read 4 bytes before the end of the region was refused
C1_Witness ==
    /\ last.op = "lbReadTyped" /\ ReaderInBuffer
    /\ last.n = 8 /\ last.p = pre.reader.length - 4
    /\ last.err = LB_READER_ERROR_END
    /\ reader.position = last.p

\* C2: the position of a Buffer-mode cursor never leaves 0 .. length.
C2_PositionInRange ==
    /\ writer.mode = LB_WRITER_MODE_BUFFER
        => (0 <= writer.position /\ writer.position <= writer.length)
    /\ reader.mode = LB_READER_MODE_BUFFER
        => (0 <= reader.position /\ reader.position <= reader.length)

\* the last two calls wrote a typed value and read one of the same width
\* and byte order back from the offset it was written to
WroteThenRead ==
    /\ prev.op = "lbWriteTyped" /\ last.op = "lbReadTyped"
    /\ WriterInBuffer /\ ReaderInBuffer
    /\ prev.n = last.n /\ prev.p = last.p

\* C3: a value of n bytes written in byte order s at position p, with
\* p + n <= length, and read back in byte order s from position p comes
\* back unchanged, and both cursors end at p + n.
C3_RoundTrip ==
    (WroteThenRead /\ prev.ord = last.ord
        /\ last.p + last.n <= pre.reader.length)
    => /\ prev.err = LB_WRITER_ERROR_NONE
       /\ last.err = LB_READER_ERROR_NONE
       /\ FromNativeBytes(last.out) = prev.val
       /\ writer.position = last.p + last.n
       /\ reader.position = last.p + last.n

\* an 8-byte value went through the big-endian accessors at offset 1
C3_Witness ==
    /\ WroteThenRead /\ prev.ord = "BE" /\ last.ord = "BE"
    /\ last.n = 8 /\ last.p = 1
    /\ FromNativeBytes(last.out) = prev.val
    /\ reader.position = 9

\* C4: a 32-bit value written by lbWriteU32BE is read back unchanged by
\* lbReadU32BE, and with its four bytes in reverse order by lbReadU32LE.
C4_BigEndianSymmetry ==
    (WroteThenRead /\ prev.ord = "BE" /\ last.n = 4
        /\ prev.err = LB_WRITER_ERROR_NONE
        /\ last.err = LB_READER_ERROR_NONE)
    => /\ last.ord = "BE" => FromNativeBytes(last.out) = prev.val
       /\ last.ord = "LE" => FromNativeBytes(last.out) = Reverse(prev.val)

\* 0x12345678 written big-endian was read little-endian as 0x78563412
C4_Witness ==
    /\ WroteThenRead /\ prev.ord = "BE" /\ last.ord = "LE"
    /\ prev.val = <<120, 86, 52, 18>>
    /\ FromNativeBytes(last.out) = <<18, 52, 86, 120>>

\* C5, as stated: a 32-bit value written by lbWriteU32BE is read back
\* unchanged by the native-order lbReadU32.
C5_NativeReadsBigEndian ==
    (WroteThenRead /\ prev.ord = "BE" /\ last.ord = "native" /\ last.n = 4
        /\ prev.err = LB_WRITER_ERROR_NONE
        /\ last.err = LB_READER_ERROR_NONE)
    => FromNativeBytes(last.out) = prev.val

\* C5, amended: on the little-endian host a 32-bit value written by
\* lbWriteU32BE is read by the native-order lbReadU32 with its four bytes
\* in reverse order.
C5_NativeReadsReversed ==
    (WroteThenRead /\ prev.ord = "BE" /\ last.ord = "native" /\ last.n = 4
        /\ prev.err = LB_WRITER_ERROR_NONE
        /\ last.err = LB_READER_ERROR_NONE)
    => FromNativeBytes(last.out) = Reverse(prev.val)

\* 0x12345678 written big-endian was read in native order as 0x78563412
C5_Witness ==
    /\ WroteThenRead /\ prev.ord = "BE" /\ last.ord = "native"
    /\ prev.val = <<120, 86, 52, 18>>
    /\ last.err = LB_READER_ERROR_NONE
    /\ FromNativeBytes(last.out) = <<18, 52, 86, 120>>

\* the value v = <<num, den>> lies in [0, 1] (unsigned writers) or in
\* [-1, 1] (signed writers)
InDeclaredRange(sgn, v) ==
    /\ v[1] <= v[2]
    /\ IF sgn THEN -v[2] <= v[1] ELSE 0 <= v[1]

\* C6: a normalized write of n bytes with an in-range value at position p
\* of a Buffer-mode writer with p + n > length returns an error containing
\* FULL, writes no byte in or past the region and leaves the position at p.
C6_NormalizedWriteRefused ==
    (last.op = "lbWriteNormalized" /\ WriterInBuffer
        /\ InDeclaredRange(last.sgn, last.v)
        /\ last.p + last.n > pre.writer.length)
    => /\ HasFlag(last.err, LB_WRITER_ERROR_FULL)
       /\ mem = pre.mem
       /\ writer.position = last.p

C8_ShortReadKeepsOffset ==
    (last.op = "lbReadTyped" /\ pre.reader.mode = LB_READER_MODE_FILE
        /\ Len(pre.store) - last.p < last.n)
    => /\ HasFlag(last.err, LB_READER_ERROR_END)
       /\ lbReaderPosition(Cur) = last.p

\* C9: a Buffer-mode seek to pos >= length returns FULL (writer) or END
\* (reader) and leaves the position unchanged; a seek to pos < length
\* returns NONE and sets the position to pos; neither changes the bytes of
\* the region or its length.
C9_Seek ==
    /\ (last.op = "lbWriterSeek" /\ WriterInBuffer)
        => /\ IF last.pos >= pre.writer.length
              THEN /\ last.err = LB_WRITER_ERROR_FULL
                   /\ writer.position = last.p
              ELSE /\ last.err = LB_WRITER_ERROR_NONE
                   /\ writer.position = last.pos
           /\ mem = pre.mem
           /\ writer.length = pre.writer.length
    /\ (last.op = "lbReaderSeek" /\ ReaderInBuffer)
        => /\ IF last.pos >= pre.reader.length
              THEN /\ last.err = LB_READER_ERROR_END
                   /\ reader.position = last.p
              ELSE /\ last.err = LB_READER_ERROR_NONE
                   /\ reader.position = last.pos
           /\ mem = pre.mem
           /\ reader.length = pre.reader.length

\* a writer that had been moved off 0 was refused a seek to pos = length
C9_Witness ==
    /\ last.op = "lbWriterSeek" /\ WriterInBuffer
    /\ last.pos = pre.writer.length
    /\ last.p > 0
    /\ last.err = LB_WRITER_ERROR_FULL
    /\ writer.position = last.p

\* C10: a successful plain typed write of n bytes at position p of a
\* Buffer-mode writer puts the n bytes of the value, in the selected byte
\* order, at offsets p .. p + n - 1 of the region, leaves every other byte
\* unchanged and advances the position by exactly n.
C10_WriteFrame ==
    (last.op = "lbWriteTyped" /\ WriterInBuffer
        /\ last.err = LB_WRITER_ERROR_NONE)
    => /\ last.p + last.n <= writer.length
       /\ BytesAt(mem, last.p, last.n) = Layout(last.val, last.ord)
       /\ \A i \in 1..Len(mem) :
              (i <= last.p \/ i > last.p + last.n) => mem[i] = pre.mem[i]
       /\ writer.position = last.p + last.n
       /\ Len(mem) = Len(pre.mem)

\* 0x12345678 was written big-endian into the last four bytes of the region
C10_Witness ==
    /\ last.op = "lbWriteTyped" /\ WriterInBuffer
    /\ last.ord = "BE" /\ last.n = 4 /\ last.p = writer.length - 4
    /\ last.err = LB_WRITER_ERROR_NONE
    /\ BytesAt(mem, last.p, 4) = <<18, 52, 86, 120>>
    /\ writer.position = writer.length

\* C11: a successful reversed transfer of n bytes, on either backend, puts
\* byte i of the source at byte n - 1 - i of the destination for every
\* 0 <= i < n and advances the cursor by n; the File-mode reversed read
\* delivers what the Buffer-mode loop delivers: the n stored bytes in
\* reverse order, for odd n as for even n.
C11_ReversedTransfer ==
    /\ (last.op = "lbWriteReversed" /\ last.err = LB_WRITER_ERROR_NONE)
        => LET dst == IF WriterInBuffer THEN mem ELSE store
           IN /\ \A i \in 0..(last.n - 1) :
                     dst[last.p + (last.n - 1 - i) + 1] = last.val[i + 1]
              /\ lbWriterPosition(Cur) = last.p + last.n
    /\ (last.op = "lbReadReversed" /\ last.err = LB_READER_ERROR_NONE)
        => LET src == IF ReaderInBuffer THEN pre.mem ELSE pre.store
           IN /\ Len(last.out) = last.n
              /\ \A i \in 0..(last.n - 1) :
                     last.out[(last.n - 1 - i) + 1] = src[last.p + i + 1]
              /\ last.out = Reverse(LoadBytes(src, last.p, last.n))
              /\ lbReaderPosition(Cur) = last.p + last.n

\* a File-mode reversed read of 5 bytes at offset 2 delivered the bytes at
\* offsets 6, 5, 4, 3, 2
C11_Witness ==
    /\ last.op = "lbReadReversed"
    /\ pre.reader.mode = LB_READER_MODE_FILE
    /\ last.n = 5 /\ last.p = 2
    /\ last.err = LB_READER_ERROR_NONE
    /\ last.out = <<StoreByte(6), StoreByte(5), StoreByte(4), StoreByte(3),
                    StoreByte(2)>>
    /\ rfile = 7

\* C12: a File-mode reversed write of n bytes makes exactly one fwrite
\* call, and when it fails no byte of the store has changed.
C12_SingleStoreWrite ==
    (last.op = "lbWriteReversed" /\ pre.writer.mode = LB_WRITER_MODE_FILE)
    => /\ last.fwrites = 1
       /\ last.err # LB_WRITER_ERROR_NONE => store = pre.store

\* the flags the conditions of C13 call for in a writer access: cursor
\* null, Buffer-mode position + length > region length, Buffer data or File
\* handle null, value null
ExpectedWriterFlags ==
    LET c == "cursor" \in last.nulls
        w == pre.writer
        buf == w.mode = LB_WRITER_MODE_BUFFER
    IN (IF c THEN LB_WRITER_ERROR_WRITER_NULL ELSE 0)
       + (IF ~c /\ buf /\ last.p + last.n > w.length
          THEN LB_WRITER_ERROR_FULL ELSE 0)
       + (IF ~c /\ ((buf /\ w.data = NULL) \/ (~buf /\ w.file = NULL))
          THEN LB_WRITER_ERROR_DATA_NULL ELSE 0)
       + (IF "value" \in last.nulls THEN LB_WRITER_ERROR_INVALID_VALUE ELSE 0)

\* the same for a reader access
ExpectedReaderFlags ==
    LET c == "cursor" \in last.nulls
        r == pre.reader
        buf == r.mode = LB_READER_MODE_BUFFER
    IN (IF c THEN LB_READER_ERROR_READER_NULL ELSE 0)
       + (IF ~c /\ buf /\ last.p + last.n > r.length
          THEN LB_READER_ERROR_END ELSE 0)
       + (IF ~c /\ ((buf /\ r.data = NULL) \/ (~buf /\ r.file = NULL))
          THEN LB_READER_ERROR_DATA_NULL ELSE 0)
       + (IF "value" \in last.nulls THEN LB_READER_ERROR_INVALID_VALUE ELSE 0)

\* no cursor, region, store or file offset differs from before the call
NothingTouched ==
    /\ writer = pre.writer /\ reader = pre.reader
    /\ mem = pre.mem /\ store = pre.store
    /\ wfile = pre.wfile /\ rfile = pre.rfile

\* C13: a checked access returns the bitwise OR of the flags of every
\* condition that holds among cursor null, Buffer-mode position + length >
\* region length, data or file handle null, value pointer null, without
\* touching storage or the position; when none holds the check passes and
\* the access is made.
C13_SafetyFlags ==
    /\ last.op = "lbWrite"
        => IF ExpectedWriterFlags # LB_WRITER_ERROR_NONE
           THEN /\ last.err = ExpectedWriterFlags
                /\ NothingTouched
                /\ last.fwrites = 0
           ELSE IF WriterInBuffer
           THEN /\ last.err = LB_WRITER_ERROR_NONE
                /\ writer.position = last.p + last.n
           ELSE last.fwrites >= 1
    /\ last.op = "lbRead"
        => IF ExpectedReaderFlags # LB_READER_ERROR_NONE
           THEN /\ last.err = ExpectedReaderFlags
                /\ NothingTouched
                /\ last.out = <<>>
           ELSE IF ReaderInBuffer
           THEN /\ last.err = LB_READER_ERROR_NONE
                /\ reader.position = last.p + last.n
           ELSE /\ last.err \in {LB_READER_ERROR_NONE, LB_READER_ERROR_END}
                /\ rfile > pre.rfile

\* lbWrite with a NULL value on a zeroed Buffer-mode writer reported FULL,
\* DATA_NULL and INVALID_VALUE together
C13_Witness ==
    /\ last.op = "lbWrite"
    /\ pre.writer = WriterBuffer(NULL, 0)
    /\ last.nulls = {"value"}
    /\ last.err = LB_WRITER_ERROR_FULL + LB_WRITER_ERROR_DATA_NULL
                      + LB_WRITER_ERROR_INVALID_VALUE
    /\ NothingTouched

C15_LengthKeepsOffset ==
    /\ (last.op = "lbWriterLength"
            /\ pre.writer.mode = LB_WRITER_MODE_FILE)
        => /\ last.ret = Len(pre.store)
           /\ lbWriterPosition(Cur) = last.p
           /\ NothingTouched
    /\ (last.op = "lbReaderLength"
            /\ pre.reader.mode = LB_READER_MODE_FILE)
        => /\ last.ret = Len(pre.store)
           /\ lbReaderPosition(Cur) = last.p
           /\ NothingTouched

\* the length of the 9-byte store was asked through a reader that a seek
\* had moved to offset 10, past the end of the store
C15_Witness ==
    /\ last.op = "lbReaderLength"
    /\ pre.reader.mode = LB_READER_MODE_FILE
    /\ prev.op = "lbReaderSeek" /\ prev.pos = 10
    /\ last.p = 10 /\ last.ret = 9
    /\ rfile = 10

\* C16: no read, write, seek, tell, length or remaining call, successful
\* or failing, changes the mode of a cursor, nor the region length or the
\* region pointer of a Buffer-mode cursor.
C16_ModeAndRegionFixed ==
    /\ writer.mode = pre.writer.mode
    /\ reader.mode = pre.reader.mode
    /\ writer.mode = LB_WRITER_MODE_BUFFER
        => /\ writer.length = pre.writer.length
           /\ writer.data = pre.writer.data
    /\ reader.mode = LB_READER_MODE_BUFFER
        => /\ reader.length = pre.reader.length
           /\ reader.data = pre.reader.data

\* a normalized write that ran past the end of the region left the mode,
\* the length and the data pointer of the writer as they were
C16_Witness ==
    /\ last.op = "lbWriteNormalized" /\ WriterInBuffer
    /\ last.err = LB_WRITER_ERROR_NONE
    /\ last.p + last.n > pre.writer.length
    /\ writer.mode = LB_WRITER_MODE_BUFFER
    /\ writer.length = MaxLength /\ writer.data = "region"

\* the last two calls wrote a normalized value with the writer of byte
\* order wo and read it back with the reader of byte order ro, same
\* signedness and width, from the offset it was written to, both without
\* error
NormWroteThenRead(wo, ro) ==
    /\ prev.op = "lbWriteNormalized" /\ last.op = "lbReadNormalized"
    /\ prev.ord = wo /\ last.ord = ro
    /\ prev.sgn = last.sgn /\ prev.n = last.n /\ prev.p = last.p
    /\ prev.err = LB_WRITER_ERROR_NONE
    /\ last.err = LB_READER_ERROR_NONE

\* 2 * den * |v| * M, for v = <<num, den>> and M the exact maximum of the
\* integer type, in n + 3 digits
TwiceScaled(sgn, n, v) ==
    MulSmall(MulSmall(Pad(NormMax(sgn, n), n + 1), Abs(v[1])), 2)

\* floor(|v| * M + 0.5) in n + 3 digits
NearestMagnitude(sgn, n, v) ==
    DivSmall(AddSmall(TwiceScaled(sgn, n, v), v[2]), 2 * v[2])

\* | mag / M - |v| | <= 0.5 / M for the magnitude mag of n digits
MagnitudeWithinHalf(mag, sgn, n, v) ==
    LET a == MulSmall(Pad(mag, n + 2), 2 * v[2])
        b == TwiceScaled(sgn, n, v)
    IN Leq(a, AddSmall(b, v[2])) /\ Leq(b, AddSmall(a, v[2]))

\* C17: for v in [0, 1] the integer q written by lbWriteNU8 .. lbWriteNU64
\* is floor(v * M + 0.5), M the largest value of the integer type, and the
\* integer q' read back by lbReadNU8 .. lbReadNU64 has |q'/M - v| <= 0.5/M.
C17_UnsignedRoundTrip ==
    (NormWroteThenRead("native", "native") /\ ~last.sgn
        /\ InDeclaredRange(FALSE, prev.v))
    => /\ Pad(prev.val, last.n + 3)
              = NearestMagnitude(FALSE, last.n, prev.v)
       /\ MagnitudeWithinHalf(FromNativeBytes(last.out), FALSE, last.n,
                               prev.v)

\* the bytes q hold a negative two's complement integer
IsNegative(q) == q[Len(q)] >= 128

\* | q / M - v | <= 0.5 / M for the two's complement integer q of n bytes
SignedWithinHalf(q, n, v) ==
    IF IsZero(q) THEN MagnitudeWithinHalf(q, TRUE, n, v)
    ELSE IF IsNegative(q) # (v[1] < 0) THEN FALSE
    ELSE MagnitudeWithinHalf(IF IsNegative(q) THEN Negate(q) ELSE q,
                             TRUE, n, v)

\* C18: for v in [-1, 1], negative v and v = -1 included, the integer q
\* written by lbWriteNI8 .. lbWriteNI64 and read back by lbReadNI8 ..
\* lbReadNI64 has |q/M - v| <= 0.5/M, M the largest value of the integer
\* type.
C18_SignedRoundTrip ==
    (NormWroteThenRead("native", "native") /\ last.sgn
        /\ InDeclaredRange(TRUE, prev.v))
    => SignedWithinHalf(FromNativeBytes(last.out), last.n, prev.v)

\* C19: for widths 2, 4 and 8 and byte order o in {LE, BE} the normalized
\* o-writer puts the bytes of the quantized integer into storage in order
\* o, and the normalized o-reader reads the same integer back.
C19_NormalizedByteOrder ==
    \A o \in {"LE", "BE"} :
        (NormWroteThenRead(o, o) /\ last.n > 1)
        => /\ BytesAt(pre.mem, last.p, last.n) = Layout(prev.val, o)
           /\ FromNativeBytes(last.out) = prev.val

\* C20: when K typed values have been written through a File-mode writer
\* from offset 0, every write returning NONE, the i-th of the reads made
\* with the accessor of the same type and byte order through a File-mode
\* reader from offset 0 returns the i-th value written and reports no
\* error.
C20_FileSequence ==
    (\A i \in 1..Written : log[i].err = LB_WRITER_ERROR_NONE)
    => \A j \in 1..(Len(log) - Written) :
           /\ log[Written + j].err = LB_READER_ERROR_NONE
           /\ FromNativeBytes(log[Written + j].out) = log[j].val

\* three 32-bit values, not all equal, were written big-endian and the
\* third read returned the third of them
C20_Witness ==
    /\ Len(log) = 6 /\ Written = 3
    /\ log[1].n = 4 /\ log[1].ord = "BE"
    /\ log[2].val # log[3].val
    /\ log[6].err = LB_READER_ERROR_NONE
    /\ FromNativeBytes(log[6].out) = log[3].val
    /\ wfile = 12 /\ rfile = 12

(* ------------------------------ arena ---------------------------------- *)

\* every call since lbPagedArenaNew(capacity) returned the arena was a
\* successful lbPagedArenaAlloc(arena, size)
OnlyAllocsOf(capacity, size) ==
    /\ arena.exists
    /\ arena.default_page_capacity = capacity
    /\ acall.pc = "idle"
    /\ acall.calls = 1 + Len(acall.allocs)
    /\ \A i \in 1..Len(acall.allocs) : acall.allocs[i].size = size

\* C21 as stated: in an arena of default page capacity 64 the first three
\* alloc(32) are served from the first page, the fourth creates a page of
\* capacity >= 32, and the first page's length is then 96
C21_ThreeFitInFirstPage ==
    OnlyAllocsOf(64, 32) =>
        /\ \A i \in 1..Len(acall.allocs) :
              i <= 3 => acall.allocs[i].page = arena.head
        /\ Len(acall.allocs) >= 4 =>
              /\ acall.allocs[4].page # arena.head
              /\ arena.heap[acall.allocs[4].page].capacity >= 32
              /\ arena.heap[arena.head].length = 96

\* C21 amended: in an arena of default page capacity 64 the first two
\* alloc(32) are served from the first page at offsets 0 and 32, the third
\* is served at offset 0 of a new page of capacity 64 linked at the tail,
\* and the first page's length is then and remains 64
C21_TwoFitInFirstPage ==
    OnlyAllocsOf(64, 32) =>
        /\ \A i \in 1..Len(acall.allocs) :
              i <= 2 => /\ acall.allocs[i].page = arena.head
                        /\ acall.allocs[i].off = 32 * (i - 1)
        /\ Len(acall.allocs) >= 3 =>
              /\ acall.allocs[3].page # arena.head
              /\ acall.allocs[3].page = arena.heap[arena.head].next
              /\ acall.allocs[3].off = 0
              /\ arena.heap[acall.allocs[3].page].capacity = 64
              /\ arena.heap[arena.head].length = 64
              /\ arena.heap[arena.head].capacity = 64

\* three alloc(32) made in a fresh arena of default page capacity 64
C21_Witness ==
    /\ OnlyAllocsOf(64, 32)
    /\ Len(acall.allocs) = 3
    /\ arena.tail # arena.head

\* the pages met walking next from page, at most fuel of them
RECURSIVE PagesFrom(_, _, _)
PagesFrom(heap, page, fuel) ==
    IF page = 0 \/ fuel = 0 THEN <<>>
    ELSE <<page>> \o PagesFrom(heap, heap[page].next, fuel - 1)

\* the pages of an arena, head first
PageList(ar) == PagesFrom(ar.heap, ar.head, MaxPages + 1)

\* lbPagedArenaAlloc has returned a pointer
AllocReturned ==
    /\ acall.op = "lbPagedArenaAlloc"
    /\ acall.pc = "idle"
    /\ acall.page # 0

\* no sum page->length + size of the scan exceeds SIZE_MAX, and the
\* smallest default_page_capacity * 2^k that is >= size is a size_t
Representable(ar, size) ==
    /\ \A a \in PageAddrs :
          ar.heap[a].used => ar.heap[a].length + size < SizeMod
    /\ size <= SizeMod \div 2

\* the positions in the page list whose page has room for size
Fitting(ar, size) ==
    {i \in 1..Len(PageList(ar)) :
        ar.heap[PageList(ar)[i]].length + size
            <= ar.heap[PageList(ar)[i]].capacity}

\* c is default * 2^k for the smallest k >= 0 with default * 2^k >= size
RECURSIVE SmallestMultiple(_, _, _)
SmallestMultiple(c, default, size) ==
    IF default >= size THEN c = default
    ELSE /\ c > default
         /\ c % 2 = 0
         /\ SmallestMultiple(c \div 2, default, (size + 1) \div 2)

DisjointRegions(i, j) ==
    LET a == acall.allocs[i]
        b == acall.allocs[j]
    IN \/ a.page # b.page
       \/ a.off + a.size <= b.off
       \/ b.off + b.size <= a.off
       \/ a.size = 0
       \/ b.size = 0

\* C23: between two consecutive clears (or since creation) any two regions
\* returned by successful lbPagedArenaAlloc calls are disjoint byte
\* ranges, each lying entirely within [0, capacity) of its page
C23_RegionsDisjoint ==
    (arena.exists /\ acall.pc = "idle") =>
        /\ \A i \in 1..Len(acall.allocs) :
              acall.allocs[i].off + acall.allocs[i].size
                  <= arena.heap[acall.allocs[i].page].capacity
        /\ \A i, j \in 1..Len(acall.allocs) :
              i < j => DisjointRegions(i, j)

\* C24: lbPagedArenaClear sets the length of every page to 0 and leaves
\* the pages, their order and their capacities as they were; the next
\* alloc(n) with n <= capacity of the head page is served at offset 0 of
\* the head page and creates no page
C24_ClearKeepsPages ==
    /\ acall.op = "lbPagedArenaClear" =>
          /\ \A a \in PageAddrs :
                /\ arena.heap[a].length = 0
                /\ arena.heap[a] = [acall.pre.heap[a] EXCEPT !.length = 0]
          /\ PageList(arena) = PageList(acall.pre)
          /\ arena.head = acall.pre.head
          /\ arena.tail = acall.pre.tail
    /\ (/\ acall.op = "lbPagedArenaAlloc"
        /\ acall.before = "lbPagedArenaClear"
        /\ acall.size <= acall.pre.heap[acall.pre.head].capacity) =>
          /\ acall.pc = "idle"
          /\ acall.page = arena.head
          /\ acall.off = 0
          /\ PageList(arena) = PageList(acall.pre)
          /\ \A a \in PageAddrs :
                arena.heap[a].used = acall.pre.heap[a].used

\* an arena of two pages has been cleared and the next request has been
\* served from the head page
C24_Witness ==
    /\ acall.op = "lbPagedArenaAlloc"
    /\ acall.before = "lbPagedArenaClear"
    /\ acall.size > 0
    /\ acall.size <= acall.pre.heap[acall.pre.head].capacity
    /\ Len(PageList(arena)) = 2
    /\ acall.page = arena.head
    /\ arena.heap[arena.tail].length = 0

\* C28: in every state reached by lbPagedArenaNew, lbPagedArenaAlloc with
\* any size (sizes that make page->length + size wrap included) and
\* lbPagedArenaClear, every page has 0 <= length <= capacity
C28_LengthWithinCapacity ==
    \A a \in PageAddrs :
        arena.heap[a].used =>
            /\ 0 <= arena.heap[a].length
            /\ arena.heap[a].length <= arena.heap[a].capacity

\* a request whose size makes page->length + size wrap has been served
C28_Witness ==
    /\ AllocReturned
    /\ acall.pre.heap[acall.page].used
    /\ acall.pre.heap[acall.page].length + acall.size >= SizeMod
    /\ arena.heap[acall.page].length < acall.pre.heap[acall.page].length

\* the page list of the arena is well formed
WellFormed(ar) ==
    LET pages == PageList(ar)
    IN /\ ar.head # 0
       /\ ar.heap[ar.head].used
       /\ ar.heap[ar.head].prev = 0
       /\ Len(pages) <= MaxPages
       /\ \A i, j \in 1..Len(pages) : i # j => pages[i] # pages[j]
       /\ {pages[i] : i \in 1..Len(pages)}
            = {a \in PageAddrs : ar.heap[a].used}
       /\ pages[Len(pages)] = ar.tail
       /\ ar.heap[ar.tail].next = 0
       /\ \A i \in 2..Len(pages) : ar.heap[pages[i]].prev = pages[i - 1]

\* C30: in every state reached by lbPagedArenaNew, lbPagedArenaAlloc and
\* lbPagedArenaClear the page list is well formed (head non-null with
\* prev = NULL, next from head visits every page exactly once and ends at
\* tail, tail.next = NULL, each prev is the preceding page), a call never
\* removes a page, alloc adds at most one page, at the tail, and a failed
\* page allocation adds none and changes no page
C30_PageListWellFormed ==
    arena.exists =>
        /\ WellFormed(arena)
        /\ acall.op \in {"lbPagedArenaAlloc", "lbPagedArenaClear"} =>
              \/ PageList(arena) = PageList(acall.pre)
              \/ /\ acall.op = "lbPagedArenaAlloc"
                 /\ PageList(arena)
                      = Append(PageList(acall.pre), arena.tail)
        /\ (/\ acall.op = "lbPagedArenaAlloc"
            /\ acall.pc = "idle"
            /\ acall.page = 0) => arena = acall.pre

\* a page allocation has failed in an arena of two pages
C30_Witness ==
    /\ arena.exists
    /\ acall.op = "lbPagedArenaAlloc"
    /\ acall.pc = "idle"
    /\ acall.page = 0
    /\ Len(PageList(arena)) = 2
    /\ arena.heap[arena.head].length > 0

\* C29: lbPagedArenaAlloc terminates for every requested size: a call
\* that has entered the capacity-doubling loop leaves it and returns
C29_AllocTerminates == (acall.pc = "double") ~> (acall.pc = "idle")

(* ------------------------------ cursors --------------------------------- *)

\* C25: the Buffer-mode bounds check rejects every access whose
\* mathematical sum position + length exceeds the region length, for
\* every length a size_t holds, lengths that make position + length wrap
\* included: the writer's check reports FULL, the reader's END
C25_BoundsCheckRejectsOverrun ==
    /\ (/\ last.op = "lbWriterCheckSafety"
        /\ last.p + last.n > pre.writer.length)
          => HasFlag(last.err, LB_WRITER_ERROR_FULL)
    /\ (/\ last.op = "lbReaderCheckSafety"
        /\ last.p + last.n > pre.reader.length)
          => HasFlag(last.err, LB_READER_ERROR_END)

\* the unsafe call recorded in last.alt ended in the state the checked
\* call ended in, with the same return code
SameAsUnsafe ==
    /\ Len(last.alt) = 1
    /\ last.alt[1].s.writer = writer
    /\ last.alt[1].s.reader = reader
    /\ last.alt[1].s.mem = mem
    /\ last.alt[1].s.store = store
    /\ last.alt[1].s.wfile = wfile
    /\ last.alt[1].s.rfile = rfile
    /\ last.alt[1].err = last.err

\* C26: whenever the safety check returns NONE for a call, the checked
\* entry point (lbRead, lbReadReversed, lbWrite, lbWriteReversed) and its
\* unsafe counterpart, started from the same cursor and storage state, end
\* in the same cursor state, the same storage contents, the same output
\* value and the same return code
C26_CheckedRefinesUnsafe ==
    /\ (last.op = "lbWrite" /\ last.ret = LB_WRITER_ERROR_NONE) =>
          SameAsUnsafe
    /\ (last.op = "lbRead" /\ last.ret = LB_READER_ERROR_NONE) =>
          /\ SameAsUnsafe
          /\ last.alt[1].out = last.out

\* a reversed read the check admitted has moved a Buffer-mode cursor and
\* returned bytes that are not a palindrome
C26_Witness ==
    /\ last.op = "lbRead"
    /\ last.rev
    /\ last.ret = LB_READER_ERROR_NONE
    /\ last.n = 4
    /\ last.p = 3
    /\ reader.mode = LB_READER_MODE_BUFFER
    /\ reader.position = 7
    /\ last.out # Reverse(last.out)
    /\ SameAsUnsafe

\* the total size of the first k logged calls that are writes
RECURSIVE WrittenSize(_)
WrittenSize(k) ==
    IF k = 0 THEN 0
    ELSE WrittenSize(k - 1)
           + (IF log[k].op = "lbWrite" THEN log[k].n ELSE 0)

\* every logged call named op succeeded on the Buffer-mode twin
BufferTwinOk(op, none) == \A i \in Calls(op) : log[i].err = none

\* C27: for any sequence of successful forward and reversed writes whose
\* total size T fits the buffer capacity, a Buffer-mode writer over a
\* region and a File-mode writer over an initially empty store, both
\* starting at offset 0, hold the same bytes at offsets [0, T) and report
\* the same tell() after every step; likewise Buffer-mode and File-mode
\* readers over identical bytes return identical values and tell() for
\* any sequence of in-bounds reads
C27_TwinsAgree ==
    LET T == WrittenSize(Len(log))
    IN /\ (/\ BufferTwinOk("lbWrite", LB_WRITER_ERROR_NONE)
           /\ T <= writer.length) =>
             /\ \A i \in Calls("lbWrite") :
                   log[i].ret = LB_WRITER_ERROR_NONE
             /\ lbWriterPosition(Cur) = T
             /\ lbWriterPosition(FileTwin) = T
             /\ Len(store) >= T
             /\ SubSeq(store, 1, T) = SubSeq(mem, 1, T)
       /\ (/\ Calls("lbReaderInitBuffer") # {}
           /\ store = SubSeq(mem, 1, reader.length)
           /\ BufferTwinOk("lbRead", LB_READER_ERROR_NONE)) =>
             /\ \A i \in Calls("lbRead") :
                   /\ log[i].ret = LB_READER_ERROR_NONE
                   /\ log[i].alt = <<log[i].out>>
             /\ lbReaderPosition(Cur) = lbReaderPosition(FileTwin)

\* a forward and a reversed write of 9 bytes in all, then a reversed and
\* a forward read of what was written, on both twins
C27_Witness ==
    /\ Len(log) = 5
    /\ log[1].op = "lbWrite" /\ ~log[1].rev /\ log[1].n = 1
    /\ log[2].op = "lbWrite" /\ log[2].rev /\ log[2].n = 8
    /\ log[4].op = "lbRead" /\ log[4].rev /\ log[4].n = 4
    /\ log[5].op = "lbRead" /\ ~log[5].rev /\ log[5].n = 4
    /\ BufferTwinOk("lbWrite", LB_WRITER_ERROR_NONE)
    /\ BufferTwinOk("lbRead", LB_READER_ERROR_NONE)
    /\ Len(store) = 9
    /\ wfile = 9
    /\ rfile = 8
    /\ log[4].out # Reverse(log[4].out)
    /\ log[5].alt = <<log[5].out>>

====
